---- MODULE Spec2Model ----
(***************************************************************************)
(* Model of the OpenAPI-to-client generator of Rapid_API-Generator:        *)
(*   src/src/services/ApiSpecService.ts      (fetch, normalise, fallback)  *)
(*   src/src/services/CodeGeneratorService.ts (endpoints, names, emission) *)
(*   src/src/utils/codeGenerator.ts           (the second type mapper)     *)
(* and, each under a specification of its own at the end of the module, of *)
(* the other programs of the repository:                                   *)
(*   src/src/rapidapiClient.ts   (SpecClient: requests and snippets)       *)
(*   src/index.js                (SpecFiles: create_or_update_file)        *)
(*   src/unnamed/part_005        (SpecExplorer: the API Explorer tree)     *)
(*   src/notion_api_backend.js   (SpecServer: the proxy; SpecDiagnostic:   *)
(*                                NotionApiDebugger.runDiagnostic)         *)
(*   src/unnamed/part_009        (SpecEnv: .env files and .gitignore)      *)
(*                                                                         *)
(* JavaScript strings that the code inspects character by character are    *)
(* sequences of one-character strings.  JavaScript values of unknown shape *)
(* (the parsed document) are tagged records: the field t is the typeof /   *)
(* null tag, an object carries exactly the properties it has, and an       *)
(* object used as an open map (paths, a path item, responses) carries its  *)
(* entries in insertion order.  A thrown exception is the value Throw(e).  *)
(* An emitted artifact is the sequence of its text pieces, every template  *)
(* hole filled with the value the code interpolates there.                 *)
(***************************************************************************)
EXTENDS Integers, Sequences, FiniteSets, TLC

VARIABLES pc, cand, apiInfo, doc, spec, opts, out, out2, clock, call, requests,
          fs, fs0, env, req, outbound, reply

vars == <<pc, cand, apiInfo, doc, spec, opts, out, out2, clock, call, requests,
          fs, fs0, env, req, outbound, reply>>

\* the state of the generator pipeline, apart from the position pc
genVars == <<cand, apiInfo, doc, spec, opts, out, out2, clock, call, requests>>
\* the state of the other programs of the repository (the file tool, the
\* extension's client, explorer and environment files, the Notion backend):
\* the filesystem and its content when the operation began, the configuration
\* or environment, the operation under way with its inputs, the requests and
\* prompts issued so far, and the results and responses produced so far
auxVars == <<fs, fs0, env, req, outbound, reply>>

(***************************************************************************)
(* Bounds of the model.                                                    *)
(***************************************************************************)
\* the longest title handed to sanitizeApiName on its own
MaxTitleLen == 3
\* the deepest nesting of array schemas handed to the type mappers
MaxSchemaDepth == 2
\* the latest reading of the clock
MaxClock == 2

(***************************************************************************)
(* Characters and strings.                                                 *)
(***************************************************************************)
LowerSeq == <<"a","b","c","d","e","f","g","h","i","j","k","l","m",
              "n","o","p","q","r","s","t","u","v","w","x","y","z">>
UpperSeq == <<"A","B","C","D","E","F","G","H","I","J","K","L","M",
              "N","O","P","Q","R","S","T","U","V","W","X","Y","Z">>
DigitSeq == <<"0","1","2","3","4","5","6","7","8","9">>

Range(s) == {s[i] : i \in DOMAIN s}

IsLower(c) == c \in Range(LowerSeq)
IsUpper(c) == c \in Range(UpperSeq)
IsLetter(c) == IsLower(c) \/ IsUpper(c)
IsDigit(c) == c \in Range(DigitSeq)
\* [a-zA-Z0-9]
IsAlnum(c) == IsLetter(c) \/ IsDigit(c)
\* \s
IsSpace(c) == c \in {" ", "\t", "\n"}
\* \w
IsWordCh(c) == IsAlnum(c) \/ c = "_"

IndexIn(c, s) == CHOOSE i \in DOMAIN s : s[i] = c

ToUpperCh(c) == IF IsLower(c) THEN UpperSeq[IndexIn(c, LowerSeq)] ELSE c
ToLowerCh(c) == IF IsUpper(c) THEN LowerSeq[IndexIn(c, UpperSeq)] ELSE c

\* String.prototype.toUpperCase / toLowerCase
toUpperCase(s) == [i \in DOMAIN s |-> ToUpperCh(s[i])]
toLowerCase(s) == [i \in DOMAIN s |-> ToLowerCh(s[i])]

\* s.replace(/^./, c => c.toUpperCase())
CapFirst(s) == IF s = <<>> THEN s ELSE <<ToUpperCh(s[1])>> \o Tail(s)

\* s.split(sep) for a one-character separator: empty pieces are kept.
RECURSIVE SplitAcc(_, _, _)
SplitAcc(s, sep, cur) ==
  IF s = <<>> THEN <<cur>>
  ELSE IF Head(s) = sep THEN <<cur>> \o SplitAcc(Tail(s), sep, <<>>)
  ELSE SplitAcc(Tail(s), sep, Append(cur, Head(s)))

Split(s, sep) == SplitAcc(s, sep, <<>>)

\* s.split(/\s+/): a maximal run of white space is one separator.
RECURSIVE SplitWsAcc(_, _, _)
SplitWsAcc(s, cur, inRun) ==
  IF s = <<>> THEN <<cur>>
  ELSE IF IsSpace(Head(s))
       THEN IF inRun THEN SplitWsAcc(Tail(s), cur, TRUE)
            ELSE <<cur>> \o SplitWsAcc(Tail(s), <<>>, TRUE)
  ELSE SplitWsAcc(Tail(s), Append(cur, Head(s)), FALSE)

SplitWs(s) == SplitWsAcc(s, <<>>, FALSE)

\* parts.join(sep)
RECURSIVE Join(_, _)
Join(parts, sep) ==
  IF parts = <<>> THEN <<>>
  ELSE IF Len(parts) = 1 THEN parts[1]
  ELSE parts[1] \o sep \o Join(Tail(parts), sep)

\* the concatenation of a sequence of sequences
RECURSIVE Flatten(_)
Flatten(ss) == IF ss = <<>> THEN <<>> ELSE Head(ss) \o Flatten(Tail(ss))

(***************************************************************************)
(* JavaScript values.                                                      *)
(***************************************************************************)
Undef == [t |-> "undefined"]
Null == [t |-> "null"]
Num(n) == [t |-> "number", n |-> n]
\* a string whose characters the code inspects
Str(s) == [t |-> "string", s |-> s]
\* a string the code only copies or compares as a whole
Lit(l) == [t |-> "string", lit |-> l]
Bool(b) == [t |-> "boolean", b |-> b]
Arr(a) == [t |-> "array", a |-> a]
\* an object used as a map: kv is the sequence of its entries [k, v]
Map(kv) == [t |-> "map", kv |-> kv]
EmptyObj == Map(<<>>)
Throw(e) == [t |-> "throw", error |-> e]

IsThrow(x) == x.t = "throw"
IsNullish(x) == x.t \in {"undefined", "null"}
\* typeof x === 'object' (true of null too)
TypeofObject(x) == x.t \in {"object", "map", "array", "null"}
\* a value that is an object: neither null nor a primitive
IsObject(x) == x.t \in {"object", "map", "array"}

Truthy(x) ==
  CASE x.t \in {"undefined", "null"} -> FALSE
    [] x.t = "number" -> x.n # 0
    [] x.t = "string" -> IF "s" \in DOMAIN x THEN Len(x.s) > 0 ELSE x.lit # ""
    [] x.t = "boolean" -> x.b
    [] OTHER -> TRUE

\* x || d
OrElse(x, d) == IF Truthy(x) THEN x ELSE d

\* x.f for x neither null nor undefined (a primitive has no own property)
Prop(x, f) == IF x.t = "object" /\ f \in DOMAIN x THEN x[f] ELSE Undef

\* x?.f
OptProp(x, f) == IF IsNullish(x) THEN Undef ELSE Prop(x, f)

\* Object.entries(x) for x a map or a number (a number has no entries)
Entries(x) ==
  CASE x.t = "map" -> x.kv
    [] OTHER -> <<>>

\* x?.[0]
OptFirst(x) == IF x.t = "array" /\ Len(x.a) > 0 THEN x.a[1] ELSE Undef

\* `${x}` for a string or undefined
ToChars(x) ==
  IF x.t = "string" /\ "s" \in DOMAIN x THEN x.s
  ELSE <<"u","n","d","e","f","i","n","e","d">>

(***************************************************************************)
(* ApiSpecService: validateAndNormalizeSpec, parseRapidApiUrl,             *)
(* createBasicSpec.                                                        *)
(***************************************************************************)
S_API == <<"A","P","I">>
PlaceholderServer == [t |-> "object", url |-> Lit("https://api.example.com")]

\* ApiSpecService.ts:85-100.  Reading a property of null or undefined is a
\* TypeError; info is read with ?. and so tolerates both.
validateAndNormalizeSpec(raw) ==
  IF IsNullish(raw) THEN Throw("TypeError")
  ELSE [t |-> "object",
        openapi |-> OrElse(Prop(raw, "openapi"), Lit("3.0.0")),
        info |-> [t |-> "object",
                  title |-> OrElse(OptProp(Prop(raw, "info"), "title"), Str(S_API)),
                  version |-> OrElse(OptProp(Prop(raw, "info"), "version"), Lit("1.0.0")),
                  description |-> OptProp(Prop(raw, "info"), "description")],
        servers |-> OrElse(Prop(raw, "servers"), Arr(<<PlaceholderServer>>)),
        paths |-> OrElse(Prop(raw, "paths"), EmptyObj),
        components |-> Prop(raw, "components")]

\* s.replace(/-/g, ' ')
DashToSpace(s) == [i \in DOMAIN s |-> IF s[i] = "-" THEN " " ELSE s[i]]

\* s.replace(/\b\w/g, l => l.toUpperCase())
WordCap(s) ==
  [i \in DOMAIN s |->
     IF IsWordCh(s[i]) /\ (i = 1 \/ ~IsWordCh(s[i - 1])) THEN ToUpperCh(s[i]) ELSE s[i]]

JsonObjectSchema == [t |-> "object", type |-> Lit("object")]

BasicOperation(summary, description, okText) ==
  [t |-> "object",
   summary |-> Lit(summary),
   description |-> Lit(description),
   responses |-> Map(<< [k |-> <<"2","0","0">>,
                        v |-> [t |-> "object",
                               description |-> Lit(okText),
                               content |-> JsonObjectSchema] ] >>)]

\* ApiSpecService.ts:124-201
createBasicSpec(info) ==
  [t |-> "object",
   openapi |-> Lit("3.0.0"),
   info |-> [t |-> "object",
             title |-> Str(WordCap(DashToSpace(info.apiName)) \o <<" ">> \o S_API),
             version |-> Lit("1.0.0"),
             description |-> Lit("Generated specification")],
   servers |-> Arr(<< [t |-> "object", url |-> Lit("https://" \o info.host),
                      description |-> Lit("API Server") ] >>),
   paths |-> Map(<<
     [k |-> <<"/">>,
      v |-> Map(<< [k |-> <<"g","e","t">>,
                   v |-> BasicOperation("Get API information",
                                        "Retrieve basic API information and status",
                                        "Successful response") ] >>)],
     [k |-> <<"/","h","e","a","l","t","h">>,
      v |-> Map(<< [k |-> <<"g","e","t">>,
                   v |-> BasicOperation("Health check",
                                        "Check API health and availability",
                                        "API is healthy") ] >>)] >>)]


(***************************************************************************)
(* CodeGeneratorService: the schema type mappers.                          *)
(***************************************************************************)
\* CodeGeneratorService.ts:408-426.  The result is the emitted type text.
RECURSIVE getTypeFromSchema(_)
getTypeFromSchema(schema) ==
  IF ~Truthy(schema) THEN Lit("any")
  ELSE LET ty == Prop(schema, "type") IN
       CASE ty = Lit("string") -> Lit("string")
         [] ty \in {Lit("number"), Lit("integer")} -> Lit("number")
         [] ty = Lit("boolean") -> Lit("boolean")
         [] ty = Lit("array") ->
              Lit(getTypeFromSchema(Prop(schema, "items")).lit \o "[]")
         [] ty = Lit("object") -> Lit("object")
         [] OTHER -> Lit("any")

\* utils/codeGenerator.ts:173-183.  No guard: schema.type of null or
\* undefined is a TypeError, also in the recursion into a missing items.
RECURSIVE mapSchemaTypeToTS(_)
mapSchemaTypeToTS(schema) ==
  IF IsNullish(schema) THEN Throw("TypeError")
  ELSE LET ty == Prop(schema, "type") IN
       CASE ty = Lit("string") -> Lit("string")
         [] ty = Lit("number") -> Lit("number")
         [] ty = Lit("integer") -> Lit("number")
         [] ty = Lit("boolean") -> Lit("boolean")
         [] ty = Lit("array") ->
              LET el == mapSchemaTypeToTS(Prop(schema, "items")) IN
              IF IsThrow(el) THEN el ELSE Lit(el.lit \o "[]")
         [] ty = Lit("object") -> Lit("object")
         [] OTHER -> Lit("any")

\* CodeGeneratorService.ts:431-442
getExampleValue(type) ==
  CASE type = Lit("string") -> "'example'"
    [] type = Lit("number") -> "123"
    [] type = Lit("boolean") -> "true"
    [] OTHER -> "'example'"

(***************************************************************************)
(* CodeGeneratorService: the identifier derivation.                        *)
(***************************************************************************)
IsStaticPart(part) == part # <<>> /\ part[1] # "{"

\* CodeGeneratorService.ts:388-392.  endpoint.method is the key of the path
\* item as it stands in the document.
getMethodName(endpoint) ==
  LET pathParts == SelectSeq(Split(endpoint.path, "/"), IsStaticPart)
      joined == Join(pathParts, <<"_">>)
      baseName == IF joined = <<>> THEN <<"a","p","i">> ELSE joined
  IN  endpoint.method \o CapFirst(SelectSeq(baseName, IsAlnum))

IsAlnumOrSpace(c) == IsAlnum(c) \/ IsSpace(c)

\* word.charAt(0).toUpperCase() + word.slice(1).toLowerCase()
TitleCaseWord(word) ==
  IF word = <<>> THEN <<>> ELSE <<ToUpperCh(word[1])>> \o toLowerCase(Tail(word))

\* CodeGeneratorService.ts:397-403.  name.replace exists on strings only.
sanitizeApiName(name) ==
  IF ~(name.t = "string" /\ "s" \in DOMAIN name) THEN Throw("TypeError")
  ELSE LET words == SplitWs(SelectSeq(name.s, IsAlnumOrSpace))
       IN  Str(Flatten([i \in DOMAIN words |-> TitleCaseWord(words[i])]))


(***************************************************************************)
(* CodeGeneratorService.parseEndpoints.                                    *)
(***************************************************************************)
Ok(v) == [t |-> "ok", v |-> v]

\* sequences of Ok(seq)/Throw results folded left to right: the first throw
\* ends the loop, otherwise the pieces are concatenated
RECURSIVE ConcatResults(_)
ConcatResults(rs) ==
  IF rs = <<>> THEN Ok(<<>>)
  ELSE IF IsThrow(Head(rs)) THEN Head(rs)
  ELSE LET rest == ConcatResults(Tail(rs)) IN
       IF IsThrow(rest) THEN rest ELSE Ok(Head(rs).v \o rest.v)

\* CodeGeneratorService.ts:355-363, one parameter
ParseParameter(param) ==
  IF IsNullish(param) THEN Throw("TypeError")
  ELSE Ok(<< [name |-> Prop(param, "name"),
             type |-> getTypeFromSchema(Prop(param, "schema")),
             required |-> OrElse(Prop(param, "required"), Bool(FALSE)),
             location |-> Prop(param, "in"),
             description |-> Prop(param, "description") ] >>)

\* CodeGeneratorService.ts:351-364: forEach exists on arrays only
ParseParameters(operation) ==
  LET ps == Prop(operation, "parameters") IN
  IF ~Truthy(ps) THEN Ok(<<>>)
  ELSE IF ps.t # "array" THEN Throw("TypeError")
  ELSE ConcatResults([i \in DOMAIN ps.a |-> ParseParameter(ps.a[i])])

\* CodeGeneratorService.ts:372-376, one response
ParseResponse(entry) ==
  IF IsNullish(entry.v) THEN Throw("TypeError")
  ELSE Ok(<< [statusCode |-> entry.k,
             description |-> Prop(entry.v, "description"),
             schema |-> Prop(entry.v, "content") ] >>)

\* CodeGeneratorService.ts:349-378, one entry of a path item.  typeof null is
\* 'object', so a null operation reaches operation.responses and throws.
ParseOperation(path, entry) ==
  LET operation == entry.v IN
  IF ~TypeofObject(operation) THEN Ok(<<>>)
  ELSE IF operation.t = "null" THEN Throw("TypeError")
  ELSE IF ~Truthy(Prop(operation, "responses")) THEN Ok(<<>>)
  ELSE LET params == ParseParameters(operation)
           rs == Entries(Prop(operation, "responses"))
           resps == ConcatResults([i \in DOMAIN rs |-> ParseResponse(rs[i])])
       IN  IF IsThrow(params) THEN params
           ELSE IF IsThrow(resps) THEN resps
           ELSE Ok(<< [path |-> path,
                      method |-> entry.k,
                      summary |-> Prop(operation, "summary"),
                      description |-> Prop(operation, "description"),
                      parameters |-> params.v,
                      responses |-> resps.v ] >>)

\* CodeGeneratorService.ts:348-349, one entry of paths
ParsePathItem(entry) ==
  IF IsNullish(entry.v) THEN Throw("TypeError")
  ELSE LET ops == Entries(entry.v) IN
       ConcatResults([i \in DOMAIN ops |-> ParseOperation(entry.k, ops[i])])

\* CodeGeneratorService.ts:345-383: Ok(the endpoint list) or the throw
parseEndpoints(sp) ==
  LET paths == Prop(sp, "paths") IN
  IF IsNullish(paths) THEN Throw("TypeError")
  ELSE LET items == Entries(paths) IN
       ConcatResults([i \in DOMAIN items |-> ParsePathItem(items[i])])


(***************************************************************************)
(* CodeGeneratorService: the emitters.  The fixed text of a template is    *)
(* the same in every artifact and is left out; an artifact is the record   *)
(* of what the code interpolates, in the order of the text.                *)
(***************************************************************************)
IsPrefixAt(s, pat, i) ==
  /\ i + Len(pat) - 1 <= Len(s)
  /\ \A j \in 1..Len(pat) : s[i + j - 1] = pat[j]

\* s.replace(pat, rep) for a string pattern: the first occurrence only
ReplaceFirst(s, pat, rep) ==
  IF \E i \in 1..Len(s) : IsPrefixAt(s, pat, i)
  THEN LET i == CHOOSE k \in 1..Len(s) :
                  IsPrefixAt(s, pat, k) /\ \A m \in 1..(k - 1) : ~IsPrefixAt(s, pat, m)
       IN  SubSeq(s, 1, i - 1) \o rep \o SubSeq(s, i + Len(pat), Len(s))
  ELSE s

\* xs.slice(0, n)
Take(xs, n) == SubSeq(xs, 1, IF Len(xs) < n THEN Len(xs) ELSE n)

\* xs.filter(p => p.location === loc)
AtLocation(params, loc) ==
  LET IsAt(p) == p.location = Lit(loc) IN SelectSeq(params, IsAt)

ApiNameOf(sp) == sanitizeApiName(Prop(Prop(sp, "info"), "title")).s

BaseUrlOf(sp) ==
  OrElse(OptProp(OptFirst(Prop(sp, "servers")), "url"), Lit("https://api.example.com"))

\* CodeGeneratorService.ts:52-69, the declarations of one endpoint
TypeDecls(endpoint) ==
  LET methodName == getMethodName(endpoint)
      ps == endpoint.parameters
  IN  (IF Len(ps) > 0
       THEN << [kind |-> "Params", name |-> methodName,
               fields |-> [i \in DOMAIN ps |->
                             [name |-> ps[i].name,
                              optional |-> ~Truthy(ps[i].required),
                              type |-> ps[i].type]] ] >>
       ELSE <<>>)
      \o << [kind |-> "Response", name |-> methodName, fields |-> <<>> ] >>

\* CodeGeneratorService.ts:23-72.  Line 28 writes new Date().toISOString().
generateTypes(sp, endpoints) ==
  [title |-> Prop(Prop(sp, "info"), "title"),
   version |-> Prop(Prop(sp, "info"), "version"),
   generatedAt |-> clock,
   configName |-> ApiNameOf(sp),
   decls |-> Flatten([i \in DOMAIN endpoints |-> TypeDecls(endpoints[i])])]

\* CodeGeneratorService.ts:86-92, the imports of one endpoint
ClientImports(endpoint) ==
  (IF Len(endpoint.parameters) > 0
   THEN << [kind |-> "Params", name |-> getMethodName(endpoint) ] >> ELSE <<>>)
  \o << [kind |-> "Response", name |-> getMethodName(endpoint) ] >>

\* CodeGeneratorService.ts:145-149
RECURSIVE SubstitutePathParams(_, _)
SubstitutePathParams(urlPath, pathParams) ==
  IF pathParams = <<>> THEN urlPath
  ELSE LET name == ToChars(Head(pathParams).name) IN
       SubstitutePathParams(
         ReplaceFirst(urlPath, <<"{">> \o name \o <<"}">>,
                      <<"$","{","p","a","r","a","m","s",".">> \o name \o <<"}">>),
         Tail(pathParams))

\* ClientMethod with the undefined-check of line 156 left out
ClientMethodUnguarded(endpoint) ==
  LET queryParams == AtLocation(endpoint.parameters, "query")
      method == toLowerCase(endpoint.method)
  IN  [doc |-> IF Truthy(endpoint.summary) THEN endpoint.summary
               ELSE Str(toUpperCase(endpoint.method) \o <<" ">> \o endpoint.path),
       description |-> OrElse(endpoint.description, Lit("")),
       name |-> getMethodName(endpoint),
       hasParams |-> Len(endpoint.parameters) > 0,
       query |-> [i \in DOMAIN queryParams |->
                    [name |-> queryParams[i].name, guarded |-> FALSE]],
       verb |-> method,
       urlPath |-> SubstitutePathParams(endpoint.path,
                                        AtLocation(endpoint.parameters, "path")),
       hasQuery |-> Len(queryParams) > 0,
       body |-> IF method \in {<<"g","e","t">>, <<"d","e","l","e","t","e">>} THEN "none"
                ELSE IF Len(AtLocation(endpoint.parameters, "body")) > 0 THEN "params"
                ELSE "{}"]

\* CodeGeneratorService.ts:132-182, the method of one endpoint
ClientMethod(endpoint) ==
  LET queryParams == AtLocation(endpoint.parameters, "query")
      method == toLowerCase(endpoint.method)
  IN  [doc |-> IF Truthy(endpoint.summary) THEN endpoint.summary
               ELSE Str(toUpperCase(endpoint.method) \o <<" ">> \o endpoint.path),
       description |-> OrElse(endpoint.description, Lit("")),
       name |-> getMethodName(endpoint),
       hasParams |-> Len(endpoint.parameters) > 0,
       query |-> [i \in DOMAIN queryParams |->
                    [name |-> queryParams[i].name,
                     guarded |-> ~Truthy(queryParams[i].required)]],
       verb |-> method,
       urlPath |-> SubstitutePathParams(endpoint.path,
                                        AtLocation(endpoint.parameters, "path")),
       hasQuery |-> Len(queryParams) > 0,
       body |-> IF method \in {<<"g","e","t">>, <<"d","e","l","e","t","e">>} THEN "none"
                ELSE IF Len(AtLocation(endpoint.parameters, "body")) > 0 THEN "params"
                ELSE "{}"]

\* CodeGeneratorService.ts:77-187
generateClient(sp, endpoints, options) ==
  [title |-> Prop(Prop(sp, "info"), "title"),
   className |-> ApiNameOf(sp),
   transport |-> "axios",
   baseUrl |-> BaseUrlOf(sp),
   imports |-> Flatten([i \in DOMAIN endpoints |-> ClientImports(endpoints[i])]),
   methods |-> [i \in DOMAIN endpoints |-> ClientMethod(endpoints[i])]]

\* CodeGeneratorService.ts:211-227, the call of one endpoint
ExampleCall(endpoint) ==
  LET ps == Take(endpoint.parameters, 3) IN
  [comment |-> IF Truthy(endpoint.summary) THEN endpoint.summary ELSE Str(endpoint.path),
   name |-> getMethodName(endpoint),
   hasArgs |-> Len(endpoint.parameters) > 0,
   args |-> [i \in DOMAIN ps |->
               [name |-> ps[i].name, value |-> getExampleValue(ps[i].type)]]]

\* generateExamples without the slice(0, 3) of line 211
generateExamplesUnsliced(sp, endpoints) ==
  [title |-> Prop(Prop(sp, "info"), "title"),
   className |-> ApiNameOf(sp),
   importFile |-> toLowerCase(ApiNameOf(sp)),
   calls |-> [i \in DOMAIN endpoints |-> ExampleCall(endpoints[i])]]

\* CodeGeneratorService.ts:192-237
generateExamples(sp, endpoints) ==
  LET shown == Take(endpoints, 3) IN
  [title |-> Prop(Prop(sp, "info"), "title"),
   className |-> ApiNameOf(sp),
   importFile |-> toLowerCase(ApiNameOf(sp)),
   calls |-> [i \in DOMAIN shown |-> ExampleCall(shown[i])]]

\* s.replace(/[^a-z0-9-]/g, '-')
Hyphenate(s) ==
  [i \in DOMAIN s |-> IF IsLower(s[i]) \/ IsDigit(s[i]) \/ s[i] = "-" THEN s[i] ELSE "-"]

\* generatePackageJson with the time of the build stamped into the version
generatePackageJsonStamped(apiName, version) ==
  [name |-> Hyphenate(toLowerCase(apiName)) \o <<"-","c","l","i","e","n","t">>,
   version |-> [t |-> "string", lit |-> "1.0.0", build |-> clock],
   description |-> apiName,
   dependencies |-> {"axios"},
   keyword |-> toLowerCase(apiName)]

\* CodeGeneratorService.ts:242-269
generatePackageJson(apiName, version) ==
  [name |-> Hyphenate(toLowerCase(apiName)) \o <<"-","c","l","i","e","n","t">>,
   version |-> OrElse(version, Lit("1.0.0")),
   description |-> apiName,
   dependencies |-> {"axios"},
   keyword |-> toLowerCase(apiName)]

DefaultEndpoint ==
  [path |-> <<"/">>, method |-> <<"g","e","t">>, summary |-> Lit("example"),
   description |-> Undef, parameters |-> <<>>, responses |-> <<>>]

\* CodeGeneratorService.ts:304-310, the entry of one endpoint
ReadmeEntry(endpoint) ==
  [name |-> getMethodName(endpoint),
   path |-> toUpperCase(endpoint.method) \o <<" ">> \o endpoint.path,
   description |-> OrElse(endpoint.description,
                          OrElse(endpoint.summary, Lit("No description available"))),
   params |-> [i \in DOMAIN endpoint.parameters |->
                 [name |-> endpoint.parameters[i].name,
                  type |-> endpoint.parameters[i].type]]]

\* CodeGeneratorService.ts:274-340
generateReadme(sp, endpoints) ==
  [title |-> Prop(Prop(sp, "info"), "title"),
   description |-> OrElse(Prop(Prop(sp, "info"), "description"),
                          Lit("Generated TypeScript client for")),
   className |-> ApiNameOf(sp),
   importFile |-> toLowerCase(ApiNameOf(sp)),
   baseUrl |-> BaseUrlOf(sp),
   exampleMethod |-> getMethodName(IF Len(endpoints) > 0 THEN endpoints[1]
                                   ELSE DefaultEndpoint),
   methods |-> [i \in DOMAIN endpoints |-> ReadmeEntry(endpoints[i])]]

\* CodeGeneratorService.ts:7-18.  Any throw of a step leaves the function
\* with that throw and no artifact; otherwise the five artifacts.
generateCode(sp, options) ==
  IF IsNullish(sp) \/ IsNullish(Prop(sp, "info")) THEN Throw("TypeError")
  ELSE IF IsThrow(sanitizeApiName(Prop(Prop(sp, "info"), "title")))
       THEN Throw("TypeError")
  ELSE LET parsed == parseEndpoints(sp) IN
       IF IsThrow(parsed) THEN parsed
       ELSE IF IsNullish(options) THEN Throw("TypeError")
       ELSE [t |-> "artifacts",
             types |-> generateTypes(sp, parsed.v),
             client |-> generateClient(sp, parsed.v, options),
             examples |-> IF Truthy(Prop(options, "includeExamples"))
                          THEN generateExamples(sp, parsed.v) ELSE Lit(""),
             packageJson |-> generatePackageJson(ApiNameOf(sp),
                                                 Prop(Prop(sp, "info"), "version")),
             readme |-> generateReadme(sp, parsed.v)]


(***************************************************************************)
(* generator.ts: the Generator of the editor extension, which fetches one  *)
(* URL and describes the first operation of the document.                  *)
(***************************************************************************)
S_api == <<"a","p","i">>

\* generator.ts:80-99, for a rapidapi.com URL and for any other URL
parseRapidApiUrl ==
  {[isRapidApi |-> TRUE, provider |-> Lit("acme"), apiName |-> Str(<<"f","o","o">>),
    originalUrl |-> Lit("https://rapidapi.com/acme/foo")],
   [isRapidApi |-> FALSE, apiName |-> Str(S_api),
    specUrl |-> Lit("https://real.example/openapi.json"),
    originalUrl |-> Lit("https://real.example/openapi.json")]}

\* generator.ts:137-170
generateBasicSpec(info) ==
  [t |-> "object",
   openapi |-> Lit("3.0.0"),
   info |-> [t |-> "object", title |-> info.apiName, version |-> Lit("1.0.0"),
             description |-> Lit("Generated API client for")],
   servers |-> Arr(<< [t |-> "object",
                       url |-> IF info.isRapidApi THEN Lit("https://rapidapi.com")
                               ELSE info.originalUrl ] >>),
   paths |-> Map(<< [k |-> <<"/">>,
                    v |-> Map(<< [k |-> <<"g","e","t">>,
                                 v |-> [t |-> "object",
                                        summary |-> Lit("Default endpoint"),
                                        responses |-> Map(<< [k |-> <<"2","0","0">>,
                                                             v |-> [t |-> "object",
                                                                    description |-> Lit("Success"),
                                                                    content |-> [t |-> "object",
                                                                                 schema |-> [t |-> "object", type |-> Lit("object")]]]] >>)]] >>)] >>)]

\* generator.ts:181-190, one parameter
EndpointParameter(param) ==
  IF IsNullish(param) THEN Throw("TypeError")
  ELSE Ok(<< [name |-> Prop(param, "name"),
             in |-> Prop(param, "in"),
             required |-> OrElse(Prop(param, "required"), Bool(FALSE)),
             type |-> OrElse(OptProp(Prop(param, "schema"), "type"), Lit("string")),
             description |-> Prop(param, "description"),
             example |-> Prop(param, "example") ] >>)

\* generator.ts:179-191
EndpointParameters(operation) ==
  LET ps == Prop(operation, "parameters") IN
  IF ~Truthy(ps) THEN Ok(<<>>)
  ELSE IF ps.t # "array" THEN Throw("TypeError")
  ELSE ConcatResults([i \in DOMAIN ps.a |-> EndpointParameter(ps.a[i])])

\* generator.ts:196-202, one response
EndpointResponse(entry) ==
  IF IsNullish(entry.v) THEN Throw("TypeError")
  ELSE Ok(<< [statusCode |-> entry.k,
             description |-> Prop(entry.v, "description"),
             schema |-> OptProp(Prop(entry.v, "content"), "schema") ] >>)

\* generator.ts:193-204
EndpointResponses(operation) ==
  LET rs == Prop(operation, "responses") IN
  IF ~Truthy(rs) THEN Ok(<<>>)
  ELSE ConcatResults([i \in DOMAIN Entries(rs) |-> EndpointResponse(Entries(rs)[i])])

\* generator.ts:228, baseUrl.includes('rapidapi')
IncludesRapidApi(url) == url = Lit("https://rapidapi.com")

\* generator.ts:219-249
generateEndpointExamples(path, method, sp) ==
  LET baseUrl == OrElse(OptProp(OptFirst(Prop(sp, "servers")), "url"),
                        Lit("https://api.example.com"))
  IN  << [name |-> "Basic Request",
          baseUrl |-> baseUrl,
          path |-> path,
          method |-> toUpperCase(method),
          rapidApiHeaders |-> IncludesRapidApi(baseUrl),
          body |-> IF toLowerCase(method) = <<"p","o","s","t">> THEN "{}" ELSE "undefined"] >>

\* generator.ts:172-217: the descriptor of the first operation of the first
\* path, or the TypeError of Object.keys(undefined) and of a property read
\* of undefined
generateEndpointFromSpec(sp, info) ==
  IF IsNullish(sp) \/ IsNullish(Prop(sp, "paths")) THEN Throw("TypeError")
  ELSE LET items == Entries(Prop(sp, "paths")) IN
  IF items = <<>> \/ IsNullish(items[1].v) THEN Throw("TypeError")
  ELSE LET ops == Entries(items[1].v) IN
  IF ops = <<>> \/ IsNullish(ops[1].v) THEN Throw("TypeError")
  ELSE LET params == EndpointParameters(ops[1].v)
           resps == EndpointResponses(ops[1].v)
       IN  IF IsThrow(params) THEN params
           ELSE IF IsThrow(resps) THEN resps
           ELSE [t |-> "endpoint",
                 name |-> info.apiName,
                 path |-> items[1].k,
                 method |-> toUpperCase(ops[1].k),
                 parameters |-> params.v,
                 responses |-> resps.v,
                 examples |-> generateEndpointExamples(items[1].k, ops[1].k, sp),
                 schema |-> sp]


(***************************************************************************)
(* The documents a server can answer with, and the other inputs.           *)
(***************************************************************************)
S_get == <<"g","e","t">>
S_GET == <<"G","E","T">>
S_post == <<"p","o","s","t">>
S_id == <<"i","d">>
S_q == <<"q">>
S_limit == <<"l","i","m","i","t">>
S_root == <<"/">>
S_users == <<"/","u","s","e","r","s">>
S_usersId == <<"/","u","s","e","r","s","/","{","i","d","}">>
S_usersIdPosts == S_usersId \o <<"/","p","o","s","t","s">>
S_search == <<"/","s","e","a","r","c","h">>
S_items == <<"/","i","t","e","m","s">>
S_200 == <<"2","0","0">>
S_FooBar == <<"F","o","o"," ","B","a","r">>

OkResponses == Map(<< [k |-> S_200, v |-> [t |-> "object", description |-> Lit("OK")]] >>)

Operation(params) ==
  [t |-> "object", parameters |-> params, responses |-> OkResponses]

Param(name, loc, required, type) ==
  [t |-> "object", name |-> Str(name), in |-> Lit(loc), required |-> required,
   schema |-> [t |-> "object", type |-> Lit(type)]]

\* GET /users and GET /users/{id}: {id} declared in: path, required: false
PathsUsers ==
  Map(<< [k |-> S_users, v |-> Map(<< [k |-> S_get, v |-> Operation(Undef) ] >>)],
        [k |-> S_usersId,
         v |-> Map(<< [k |-> S_get,
                      v |-> Operation(Arr(<<Param(S_id, "path", Bool(FALSE), "string")>>)) ] >>) ] >>)

\* GET /users/{id}/posts, {id} declared without a required flag
PathsPosts ==
  Map(<< [k |-> S_usersIdPosts,
         v |-> Map(<< [k |-> S_get,
                      v |-> Operation(Arr(<<Param(S_id, "path", Undef, "integer")>>)) ] >>) ] >>)

\* the method key in upper case, on the root path
PathsUpperKey ==
  Map(<< [k |-> S_root, v |-> Map(<< [k |-> S_GET, v |-> Operation(Undef) ] >>) ] >>)

\* GET /search with q required and limit optional; POST /items;
\* an operation with an empty responses map
PathsSearch ==
  Map(<< [k |-> S_search,
         v |-> Map(<< [k |-> S_get,
                      v |-> Operation(Arr(<<Param(S_q, "query", Bool(TRUE), "string"),
                                            Param(S_limit, "query", Undef, "integer")>>)) ] >>)],
        [k |-> S_items,
         v |-> Map(<< [k |-> S_post,
                      v |-> [t |-> "object", responses |-> EmptyObj] ] >>) ] >>)

\* a path item holding a path-level key and an operation without responses
PathsNoOperation ==
  Map(<< [k |-> S_items,
         v |-> Map(<< [k |-> <<"s","u","m","m","a","r","y">>, v |-> Lit("items")],
                     [k |-> S_get, v |-> [t |-> "object", summary |-> Lit("list")] ] >>) ] >>)

\* a path whose item is null
PathsNullItem == Map(<< [k |-> S_users, v |-> Null ] >>)

S_put == <<"p","u","t">>
S_patch == <<"p","a","t","c","h">>
S_delete == <<"d","e","l","e","t","e">>
S_options == <<"o","p","t","i","o","n","s">>
S_parameters == <<"p","a","r","a","m","e","t","e","r","s">>
S_session == <<"s","e","s","s","i","o","n">>
S_body == <<"b","o","d","y">>

\* a JSON request body { name: string }
NameRequestBody ==
  [t |-> "object",
   content |-> [t |-> "object",
                schema |-> [t |-> "object", type |-> Lit("object"),
                            properties |-> Lit("name: string")]]]

OperationWithBody(params) ==
  [t |-> "object", parameters |-> params, requestBody |-> NameRequestBody,
   responses |-> OkResponses]

\* POST /items with a cookie parameter and a JSON request body; PUT
\* /items/{id} with a Swagger 2 parameter declared in: body
PathsCookieBody ==
  Map(<< [k |-> S_items,
         v |-> Map(<< [k |-> S_post,
                      v |-> OperationWithBody(
                              Arr(<<Param(S_session, "cookie", Bool(TRUE), "string")>>)) ] >>)],
        [k |-> S_items \o <<"/","{","i","d","}">>,
         v |-> Map(<< [k |-> S_put,
                      v |-> Operation(Arr(<<Param(S_id, "path", Bool(TRUE), "string"),
                                            Param(S_body, "body", Bool(TRUE), "object")>>)) ] >>) ] >>)

\* /users with its operations in the order post, get, delete, put, and an
\* options operation: five endpoints for the code
PathsMethodOrder ==
  Map(<< [k |-> S_users,
         v |-> Map(<< [k |-> S_post, v |-> Operation(Undef)],
                     [k |-> S_get, v |-> Operation(Undef)],
                     [k |-> S_delete, v |-> Operation(Undef)],
                     [k |-> S_put, v |-> Operation(Undef)],
                     [k |-> S_options, v |-> Operation(Undef)] >>) ] >>)

\* /users in the canonical order of the methods: four endpoints
PathsCanonical ==
  Map(<< [k |-> S_users,
         v |-> Map(<< [k |-> S_get, v |-> Operation(Undef)],
                     [k |-> S_post, v |-> Operation(Undef)],
                     [k |-> S_put, v |-> Operation(Undef)],
                     [k |-> S_delete, v |-> Operation(Undef)] >>) ] >>)

\* /users/{id} with {id} declared at the level of the path item
PathsPathLevelParams ==
  Map(<< [k |-> S_usersId,
         v |-> Map(<< [k |-> S_parameters,
                      v |-> Arr(<<Param(S_id, "path", Bool(TRUE), "string")>>)],
                     [k |-> S_get, v |-> Operation(Undef)] >>) ] >>)

\* an operation that is null
PathsNullOperation ==
  Map(<< [k |-> S_users, v |-> Map(<< [k |-> S_get, v |-> Null ] >>) ] >>)

DocPaths ==
  {Undef, EmptyObj, PathsUsers, PathsPosts, PathsUpperKey, PathsSearch,
   PathsNoOperation, PathsNullItem, PathsCookieBody, PathsMethodOrder,
   PathsCanonical, PathsPathLevelParams, PathsNullOperation}

DocTitles ==
  {Undef, Str(<<>>), Str(S_FooBar), Str(<<"!","?">>), Str(<<"9"," ","a">>), Num(42)}

DocInfos ==
  {Undef, Null}
  \cup {[t |-> "object", title |-> ti, version |-> Undef] : ti \in DocTitles}
  \cup {[t |-> "object", title |-> ti, version |-> Lit("2.0")] :
          ti \in {Undef, Str(S_FooBar)}}

DocServers ==
  {Undef, Arr(<<>>), Arr(<< [t |-> "object", url |-> Lit("https://real.example") ] >>)}

OpenApiDoc(i, sv, p) ==
  [t |-> "object", openapi |-> Lit("3.0.0"), info |-> i, servers |-> sv, paths |-> p]

\* the documents that carry an openapi version: every info with no paths
\* and with colliding paths, and every servers and paths with and without
\* an info
OpenApiDocs ==
  {OpenApiDoc(i, Undef, p) : i \in DocInfos, p \in {EmptyObj, PathsUsers}}
  \cup {OpenApiDoc(i, sv, p) :
          i \in {Undef, [t |-> "object", title |-> Str(S_FooBar), version |-> Lit("2.0")]},
          sv \in DocServers, p \in DocPaths}

\* parsed bodies that are no OpenAPI document
OtherBodies ==
  {Null, Num(5), Lit("not found"), [t |-> "object"],
   [t |-> "object", paths |-> PathsUsers]}

\* a Swagger 2 document
SwaggerDocs ==
  {[t |-> "object", swagger |-> Lit("2.0"),
    info |-> [t |-> "object", title |-> Str(S_FooBar), version |-> Lit("2.0")],
    paths |-> PathsCookieBody]}

Bodies == OpenApiDocs \cup SwaggerDocs \cup OtherBodies

\* what parseRapidApiUrl returns (ApiSpecService.ts:105-119) for the URLs
\* isValidRapidApiUrl lets through
ApiInfos ==
  {[host |-> "demo.p.rapidapi.com", apiName |-> <<"u","n","k","n","o","w","n","-","a","p","i">>],
   [host |-> "rapidapi.com", apiName |-> <<"f","o","o","-","b","a","r">>]}

OptionSets ==
  {[t |-> "object", includeExamples |-> Bool(ex), includeTests |-> Bool(FALSE),
    outputFormat |-> Lit("typescript"), clientType |-> Lit(ct)] :
     ex \in BOOLEAN, ct \in {"axios", "fetch"}}


\* all strings over an alphabet up to a length
StringsUpTo(alphabet, n) == UNION {[1..k -> alphabet] : k \in 0..n}

\* a letter of each case, a digit, white space, and a character outside
\* [A-Za-z0-9\s] (punctuation, or a code unit of an emoji)
TitleAlphabet == {"f", "B", "7", " ", "!"}

TitleInputs == {Str(s) : s \in StringsUpTo(TitleAlphabet, MaxTitleLen)}

TypeNames == {"string", "number", "integer", "boolean", "object", "date"}

\* schema nodes: absent, null, a primitive, {}, a typed node, and arrays
\* with and without items
RECURSIVE SchemaInputs(_)
SchemaInputs(depth) ==
  IF depth = 0
  THEN {Undef, Null, Num(0), [t |-> "object"]}
       \cup {[t |-> "object", type |-> Lit(ty)] : ty \in TypeNames}
  ELSE SchemaInputs(depth - 1)
       \cup {[t |-> "object", type |-> Lit("array")]}
       \cup {[t |-> "object", type |-> Lit("array"), items |-> it] :
               it \in SchemaInputs(depth - 1)}

MethodKeys == {S_get, S_GET, S_post, <<"D","e","l","e","t","e">>}

PathInputs ==
  {<<>>, S_root, S_users, S_usersId, S_usersIdPosts, S_search,
   <<"/","{","i","d","}">>, <<"/","a","-","b","/","c","_","d">>,
   <<"/","v","1","/","{","i","d">>, <<"/","-">>}

\* values that are no object, as a caller of the exported generateCode
\* can pass them
NonObjects == {Undef, Null, Num(5), Lit("spec")}

(***************************************************************************)
(* The state machine.                                                      *)
(*   pc       where the generate handler of App.tsx is                     *)
(*   cand     the candidate URL fetchOpenApiSpec is at: 0 the given URL,   *)
(*            1..PossibleUrls the conventional paths on the host           *)
(*   apiInfo  the result of parseRapidApiUrl, while fetchOpenApiSpec runs   *)
(*   doc      the parsed body fetchOpenApiSpec accepted, if any            *)
(*   spec     the specification fetchOpenApiSpec returned                  *)
(*   opts     the GenerationOptions of the run                             *)
(*   out      what generateCode returned or threw                          *)
(*   out2     the same for a second call with the same arguments           *)
(*   clock    the time new Date() reads                                    *)
(*   call     the last direct application of one of the functions          *)
(*   requests the requests fetchOpenApiSpec has started, in order: the     *)
(*            candidate, whether the response is still awaited, and        *)
(*            whether it answered OK with a document that has a version    *)
(***************************************************************************)
PossibleUrls == 5

None == [t |-> "none"]

Init ==
  /\ pc = "idle"
  /\ cand = 0
  /\ apiInfo = None
  /\ doc = None
  /\ spec = None
  /\ opts = None
  /\ out = None
  /\ out2 = None
  /\ clock = 0
  /\ call = None
  /\ requests = <<>>
  /\ fs = None
  /\ fs0 = None
  /\ env = None
  /\ req = None
  /\ outbound = <<>>
  /\ reply = <<>>

Applied(fn, arg, res) == [t |-> "call", fn |-> fn, arg |-> arg, res |-> res]

\* a direct application of a function to one input, from the initial state
CallNormalize ==
  /\ pc = "idle"
  /\ \E raw \in Bodies \cup {Undef} :
       call' = Applied("validateAndNormalizeSpec", raw, validateAndNormalizeSpec(raw))
  /\ pc' = "returned"
  /\ UNCHANGED <<cand, apiInfo, doc, spec, opts, out, out2, clock, requests, auxVars>>

CallSanitizeApiName ==
  /\ pc = "idle"
  /\ \E title \in TitleInputs :
       call' = Applied("sanitizeApiName", title, sanitizeApiName(title))
  /\ pc' = "returned"
  /\ UNCHANGED <<cand, apiInfo, doc, spec, opts, out, out2, clock, requests, auxVars>>

CallGetTypeFromSchema ==
  /\ pc = "idle"
  /\ \E schema \in SchemaInputs(MaxSchemaDepth) :
       call' = Applied("getTypeFromSchema", schema, getTypeFromSchema(schema))
  /\ pc' = "returned"
  /\ UNCHANGED <<cand, apiInfo, doc, spec, opts, out, out2, clock, requests, auxVars>>

CallMapSchemaTypeToTS ==
  /\ pc = "idle"
  /\ \E schema \in SchemaInputs(MaxSchemaDepth) :
       call' = Applied("mapSchemaTypeToTS", schema, mapSchemaTypeToTS(schema))
  /\ pc' = "returned"
  /\ UNCHANGED <<cand, apiInfo, doc, spec, opts, out, out2, clock, requests, auxVars>>

EndpointOf(m, p) ==
  [path |-> p, method |-> m, summary |-> Undef, description |-> Undef,
   parameters |-> <<>>, responses |-> <<>>]

CallGetMethodName ==
  /\ pc = "idle"
  /\ \E m \in MethodKeys, p \in PathInputs :
       call' = Applied("getMethodName", EndpointOf(m, p), Str(getMethodName(EndpointOf(m, p))))
  /\ pc' = "returned"
  /\ UNCHANGED <<cand, apiInfo, doc, spec, opts, out, out2, clock, requests, auxVars>>

CallGenerateCode ==
  /\ pc = "idle"
  /\ \E sp \in NonObjects, o \in OptionSets :
       call' = Applied("generateCode", sp, generateCode(sp, o))
  /\ pc' = "returned"
  /\ UNCHANGED <<cand, apiInfo, doc, spec, opts, out, out2, clock, requests, auxVars>>

\* the guard without its test of the version fields
LooksLikeOpenApiLax(data) == Truthy(data)

\* the guard of ApiSpecService.ts:24 and :53
LooksLikeOpenApi(data) ==
  Truthy(data) /\ (Truthy(Prop(data, "openapi")) \/ Truthy(Prop(data, "swagger")))

\* App.tsx:32-47 and ApiSpecService.ts:10-13: the URL passed
\* isValidRapidApiUrl; the given URL is a candidate when it looks like a
\* specification URL
Start ==
  \E info \in ApiInfos, direct \in BOOLEAN :
    /\ pc = "idle"
    /\ pc' = "fetching"
    /\ apiInfo' = info
    /\ cand' = IF direct THEN 0 ELSE 1
    /\ UNCHANGED <<doc, spec, opts, out, out2, clock, call, requests, auxVars>>

\* the entry of the request log for a request that was started
Pending(c) == [cand |-> c, state |-> "pending", shaped |-> FALSE]

\* the last entry of the log, settled
Settle(log, shaped) ==
  [log EXCEPT ![Len(log)] = [@ EXCEPT !.state = "settled", !.shaped = shaped]]

\* the body holds an openapi or a swagger field
HasVersionField(data) ==
  data.t = "object"
    /\ (Prop(data, "openapi").t # "undefined" \/ Prop(data, "swagger").t # "undefined")

\* ApiSpecService.ts:15 and :44: await fetch(url) of the candidate the
\* function is at
SendRequest ==
  /\ pc = "fetching"
  /\ cand <= PossibleUrls
  /\ requests' = Append(requests, Pending(cand))
  /\ pc' = "awaiting"
  /\ UNCHANGED <<cand, apiInfo, doc, spec, opts, out, out2, clock, call, auxVars>>

\* ApiSpecService.ts:15-30 and :43-60: the request fails, answers with a
\* status that is not OK, or with a body that is no JSON
FetchFails ==
  /\ pc = "awaiting"
  /\ requests' = Settle(requests, FALSE)
  /\ cand' = cand + 1
  /\ pc' = "fetching"
  /\ UNCHANGED <<apiInfo, doc, spec, opts, out, out2, clock, call, auxVars>>

\* ApiSpecService.ts:24 and :53: a parsed body that fails the guard; or
\* one whose normalisation throws, inside the try of lines 14-30 and 43-60
FetchRejected ==
  \E data \in Bodies :
    /\ pc = "awaiting"
    /\ \/ ~LooksLikeOpenApi(data)
       \/ IsThrow(validateAndNormalizeSpec(data))
    /\ requests' = Settle(requests, HasVersionField(data))
    /\ cand' = cand + 1
    /\ pc' = "fetching"
    /\ UNCHANGED <<apiInfo, doc, spec, opts, out, out2, clock, call, auxVars>>

\* ApiSpecService.ts:25 and :54
FetchAccepted ==
  \E data \in Bodies :
    /\ pc = "awaiting"
    /\ LooksLikeOpenApi(data)
    /\ ~IsThrow(validateAndNormalizeSpec(data))
    /\ requests' = Settle(requests, HasVersionField(data))
    /\ doc' = data
    /\ spec' = validateAndNormalizeSpec(data)
    /\ pc' = "fetched"
    /\ cand' = 0
    /\ apiInfo' = None
    /\ UNCHANGED <<opts, out, out2, clock, call, auxVars>>

\* ApiSpecService.ts:63-64
Fallback ==
  /\ pc = "fetching"
  /\ cand > PossibleUrls
  /\ spec' = createBasicSpec(apiInfo)
  /\ pc' = "fetched"
  /\ cand' = 0
  /\ apiInfo' = None
  /\ UNCHANGED <<doc, opts, out, out2, clock, call, requests, auxVars>>

\* App.tsx:50-72
Generate ==
  \E o \in OptionSets :
    /\ pc = "fetched"
    /\ opts' = o
    /\ out' = generateCode(spec, o)
    /\ pc' = IF IsThrow(generateCode(spec, o)) THEN "failed" ELSE "generated"
    /\ requests' = <<>>
    /\ UNCHANGED <<cand, apiInfo, doc, spec, out2, clock, call, auxVars>>

\* time passes; only generateTypes reads the clock, so the time that
\* passes before the first call is not observable
Tick ==
  /\ pc \in {"generated", "failed"}
  /\ clock < MaxClock
  /\ clock' = clock + 1
  /\ UNCHANGED <<pc, cand, apiInfo, doc, spec, opts, out, out2, call, requests, auxVars>>

\* a second call of generateCode with the same specification and options
GenerateAgain ==
  /\ pc \in {"generated", "failed"}
  /\ out2' = generateCode(spec, opts)
  /\ pc' = "done"
  /\ UNCHANGED <<cand, apiInfo, doc, spec, opts, out, clock, call, requests, auxVars>>

\* generator.ts:65-71 and :101-115: generateFromUrl parses the URL and
\* awaits the one request of fetchOpenApiSpec
ExtStart ==
  \E info \in parseRapidApiUrl :
    /\ pc = "idle"
    /\ apiInfo' = info
    /\ pc' = "ext_awaiting"
    /\ UNCHANGED <<cand, doc, spec, opts, out, out2, clock, call, requests, auxVars>>

\* generator.ts:131-134: the request fails or answers with a status
\* outside 2xx, or a text body parses neither as YAML nor as JSON
ExtFetchFails ==
  /\ pc = "ext_awaiting"
  /\ spec' = generateBasicSpec(apiInfo)
  /\ pc' = "ext_fetched"
  /\ UNCHANGED <<cand, apiInfo, doc, opts, out, out2, clock, call, requests, auxVars>>

\* generator.ts:117-130: whatever the body parses to is the specification
ExtFetchReturns ==
  \E data \in Bodies :
    /\ pc = "ext_awaiting"
    /\ doc' = data
    /\ spec' = data
    /\ pc' = "ext_fetched"
    /\ UNCHANGED <<cand, apiInfo, opts, out, out2, clock, call, requests, auxVars>>

\* generator.ts:74-77: the TypeError of generateEndpointFromSpec is thrown
\* again as "Failed to generate from URL"
ExtGenerateEndpoint ==
  /\ pc = "ext_fetched"
  /\ out' = generateEndpointFromSpec(spec, apiInfo)
  /\ pc' = IF IsThrow(generateEndpointFromSpec(spec, apiInfo))
           THEN "ext_failed" ELSE "ext_done"
  /\ apiInfo' = None
  /\ UNCHANGED <<cand, doc, spec, opts, out2, clock, call, requests, auxVars>>

Next ==
  \/ CallNormalize
  \/ CallSanitizeApiName
  \/ CallGetTypeFromSchema
  \/ CallMapSchemaTypeToTS
  \/ CallGetMethodName
  \/ CallGenerateCode
  \/ Start
  \/ SendRequest
  \/ FetchFails
  \/ FetchRejected
  \/ FetchAccepted
  \/ Fallback
  \/ Generate
  \/ Tick
  \/ GenerateAgain
  \/ ExtStart
  \/ ExtFetchFails
  \/ ExtFetchReturns
  \/ ExtGenerateEndpoint

Spec == Init /\ [][Next]_vars


(***************************************************************************)
(* The properties.                                                         *)
(***************************************************************************)
Returned == pc \in {"generated", "failed", "done"}
Called(fn) == call.t = "call" /\ call.fn = fn

S_health == <<"/","h","e","a","l","t","h">>

PathsMissingOrEmpty(d) ==
  Prop(d, "paths").t = "undefined" \/ Prop(d, "paths") = EmptyObj

EndpointKeys(eps) == [i \in DOMAIN eps |-> <<toUpperCase(eps[i].method), eps[i].path>>]

\* C1: whenever the document's paths is missing or an empty map, the
\* normalised specification has exactly the endpoints GET / and GET /health,
\* so the endpoint list is not empty and the client has exactly two methods.
C1_EmptyPathsGiveRootAndHealth ==
  (Returned /\ doc # None /\ PathsMissingOrEmpty(doc)) =>
     /\ ~IsThrow(parseEndpoints(spec))
     /\ EndpointKeys(parseEndpoints(spec).v) = << <<S_GET, S_root>>, <<S_GET, S_health>> >>
     /\ out.t = "artifacts" => Len(out.client.methods) = 2

C3_ServersTitleVersionDefaulted ==
  (pc \in {"fetched", "generated", "failed", "done"} /\ doc # None) =>
     /\ spec.servers.t = "array" /\ Len(spec.servers.a) >= 1
     /\ Truthy(spec.info.title) /\ Truthy(spec.info.version)
     /\ ~Truthy(OptProp(Prop(doc, "info"), "title")) => spec.info.title = Str(S_API)
     /\ ~Truthy(OptProp(Prop(doc, "info"), "version")) => spec.info.version = Lit("1.0.0")
     /\ (~Truthy(Prop(doc, "servers")) \/ Prop(doc, "servers") = Arr(<<>>))
          => spec.servers = Arr(<<PlaceholderServer>>)

\* C4: generateCode given a value that is no object signals an
\* InvalidSpecError and returns no artifact, and that is the only input
\* that makes it fail: given an object it returns the artifacts.
C4_OnlyNonObjectSpecFails ==
  /\ Called("generateCode") => call.res = Throw("InvalidSpecError")
  /\ Returned => (IsThrow(out) <=> ~IsObject(spec))

C6_MethodNamesDistinct ==
  out.t = "artifacts" =>
     \A i, j \in DOMAIN out.client.methods :
        i # j => out.client.methods[i].name # out.client.methods[j].name

IsPlaceholder(part) ==
  Len(part) >= 2 /\ part[1] = "{" /\ part[Len(part)] = "}"

IsNamedPart(part) == part # <<>> /\ ~IsPlaceholder(part)

\* the method name as C7 states it
ClaimedMethodName(endpoint) ==
  LET static == SelectSeq(Split(endpoint.path, "/"), IsNamedPart) IN
  toLowerCase(endpoint.method)
    \o (IF static = <<>> THEN <<"A","p","i">>
        ELSE CapFirst(SelectSeq(Flatten(static), IsAlnum)))

\* C7: the method name is the lower-case HTTP method followed by the
\* concatenated static segments of the path, stripped of what is not
\* alphanumeric, first letter capitalised; GET /users/{id}/posts gives
\* getUsersPosts; a path without static segment gives getApi, whatever the
\* letter case of the method key.
C7_MethodNameRule ==
  Called("getMethodName") =>
     /\ call.res = Str(ClaimedMethodName(call.arg))
     /\ call.arg = EndpointOf(S_get, S_usersIdPosts)
          => call.res = Str(<<"g","e","t","U","s","e","r","s","P","o","s","t","s">>)

ValidIdentifier(s) ==
  /\ Len(s) > 0
  /\ IsLetter(s[1])
  /\ \A i \in DOMAIN s : IsAlnum(s[i])

\* C8: for every title the class name is a valid identifier (not empty,
\* starting with a letter, alphanumeric only); the title "Foo Bar" gives
\* FooBar.
C8_ClassNameIsIdentifier ==
  /\ (Called("sanitizeApiName") /\ Len(call.arg.s) > 0) =>
        ~IsThrow(call.res) /\ ValidIdentifier(call.res.s)
  /\ out.t = "artifacts" =>
        /\ ValidIdentifier(out.client.className)
        /\ out.client.title = Str(S_FooBar)
             => out.client.className = <<"F","o","o","B","a","r">>

\* the type expression as C9 states it
RECURSIVE ClaimedType(_)
ClaimedType(schema) ==
  LET ty == OptProp(schema, "type") IN
  CASE ty = Lit("string") -> "string"
    [] ty \in {Lit("number"), Lit("integer")} -> "number"
    [] ty = Lit("boolean") -> "boolean"
    [] ty = Lit("array") -> ClaimedType(Prop(schema, "items")) \o "[]"
    [] ty = Lit("object") -> "object"
    [] OTHER -> "any"

GetTypeFromSchemaFollowsTable ==
  Called("getTypeFromSchema") => call.res = Lit(ClaimedType(call.arg))

\* C10: every parameter whose location is path is required in the endpoint
\* descriptor and in the emitted parameter type, also when the document
\* declares it required: false or leaves the flag out.
C10_PathParametersRequired ==
  out.t = "artifacts" =>
     \A i \in DOMAIN parseEndpoints(spec).v :
        LET e == parseEndpoints(spec).v[i] IN
        \A k \in DOMAIN e.parameters :
           e.parameters[k].location = Lit("path") =>
              /\ Truthy(e.parameters[k].required)
              /\ \A d \in DOMAIN out.types.decls :
                    (out.types.decls[d].kind = "Params"
                       /\ out.types.decls[d].name = getMethodName(e)) =>
                    \A f \in DOMAIN out.types.decls[d].fields :
                       out.types.decls[d].fields[f].name = e.parameters[k].name
                         => ~out.types.decls[d].fields[f].optional

\* the value a map holds under a key
ValueAt(m, key) ==
  LET i == CHOOSE k \in DOMAIN m.kv : m.kv[k].k = key IN m.kv[i].v

\* the operation of the specification an endpoint descriptor comes from
DeclaredOperation(sp, e) == ValueAt(ValueAt(sp.paths, e.path), e.method)

DeclaredParameters(op) ==
  IF Prop(op, "parameters").t = "array" THEN Prop(op, "parameters").a ELSE <<>>

ClaimedLocation(in) == IF in = Lit("cookie") THEN Lit("header") ELSE in

\* C11: every declared parameter of an operation is in its endpoint
\* descriptor with a location among query, path, header and body, a cookie
\* parameter as header; and an operation with a request body has exactly one
\* more parameter, named body, with the location body.
C11_ParametersAndBodyRepresented ==
  out.t = "artifacts" =>
     \A i \in DOMAIN parseEndpoints(spec).v :
        LET e == parseEndpoints(spec).v[i]
            op == DeclaredOperation(spec, e)
            declared == DeclaredParameters(op)
            hasBody == Truthy(Prop(op, "requestBody"))
        IN  /\ Len(e.parameters) = Len(declared) + (IF hasBody THEN 1 ELSE 0)
            /\ \A k \in DOMAIN declared :
                  /\ e.parameters[k].name = Prop(declared[k], "name")
                  /\ e.parameters[k].location = ClaimedLocation(Prop(declared[k], "in"))
            /\ \A k \in DOMAIN e.parameters :
                  e.parameters[k].location
                    \in {Lit("query"), Lit("path"), Lit("header"), Lit("body")}
            /\ hasBody =>
                  /\ e.parameters[Len(e.parameters)].name = Str(S_body)
                  /\ e.parameters[Len(e.parameters)].location = Lit("body")

\* the HTTP methods C12 and C13 name, in their order
CanonicalMethods == <<S_GET, <<"P","O","S","T">>, <<"P","U","T">>,
                      <<"P","A","T","C","H">>, <<"D","E","L","E","T","E">> >>

IsRecognizedMethod(key) == toUpperCase(key) \in Range(CanonicalMethods)

HasResponsesMap(operation) ==
  operation.t = "object" /\ Prop(operation, "responses").t = "map"

AllPathItemsAreMaps(sp) ==
  sp.paths.t = "map" /\ \A i \in DOMAIN sp.paths.kv : sp.paths.kv[i].v.t = "map"

\* the (method, path) pairs C12 says are endpoints
ClaimedEndpointSet(sp) ==
  {<<toUpperCase(sp.paths.kv[i].v.kv[j].k), sp.paths.kv[i].k>> :
     <<i, j>> \in {<<a, b>> \in (DOMAIN sp.paths.kv) \X (1..8) :
                     /\ b \in DOMAIN sp.paths.kv[a].v.kv
                     /\ IsRecognizedMethod(sp.paths.kv[a].v.kv[b].k)
                     /\ HasResponsesMap(sp.paths.kv[a].v.kv[b].v)}}

\* C12: an entry of a path item produces an endpoint if and only if its
\* key is one of GET, POST, PUT, PATCH, DELETE and its value has a responses
\* map, possibly empty; every other entry (a path-level key, a null
\* operation, an operation without responses) is skipped and raises no
\* error.
C12_OnlyMethodKeysWithResponses ==
  (pc \in {"fetched", "generated", "failed", "done"} /\ AllPathItemsAreMaps(spec)) =>
     /\ ~IsThrow(parseEndpoints(spec))
     /\ Range(EndpointKeys(parseEndpoints(spec).v)) = ClaimedEndpointSet(spec)

\* the entries of one path item under one method, in upper case
RECURSIVE OperationsUnder(_, _, _)
OperationsUnder(path, ops, m) ==
  IF ops = <<>> THEN <<>>
  ELSE (IF toUpperCase(Head(ops).k) = m /\ HasResponsesMap(Head(ops).v)
        THEN << <<m, path>> >> ELSE <<>>)
       \o OperationsUnder(path, Tail(ops), m)

\* the (method, path) pairs in the order C13 states: the paths in insertion
\* order and, within a path, GET, POST, PUT, PATCH, DELETE
ClaimedOrder(sp) ==
  Flatten([i \in DOMAIN sp.paths.kv |->
             Flatten([m \in DOMAIN CanonicalMethods |->
                        OperationsUnder(sp.paths.kv[i].k, sp.paths.kv[i].v.kv,
                                        CanonicalMethods[m])])])

\* C13: the endpoints come in the insertion order of the paths and, within
\* each path, in the order GET, POST, PUT, PATCH, DELETE, whatever the
\* order of the method keys in the path item.
C13_CanonicalMethodOrder ==
  (out.t = "artifacts" /\ AllPathItemsAreMaps(spec)) =>
     LET Recognized(key) == key[1] \in Range(CanonicalMethods) IN
     SelectSeq(EndpointKeys(parseEndpoints(spec).v), Recognized) = ClaimedOrder(spec)

\* the argument the caller passes for every parameter
S_42 == <<"4","2">>

\* the index of the first "}" of s at or after i, Len(s) + 1 if none
RECURSIVE ClosingBrace(_, _)
ClosingBrace(s, i) ==
  IF i > Len(s) THEN Len(s) + 1
  ELSE IF s[i] = "}" THEN i ELSE ClosingBrace(s, i + 1)

\* the string a template literal evaluates to, from position i on, when
\* every params.<name> is "42"
RECURSIVE EvalTemplateFrom(_, _)
EvalTemplateFrom(s, i) ==
  IF i > Len(s) THEN <<>>
  ELSE IF IsPrefixAt(s, <<"$","{","p","a","r","a","m","s",".">>, i)
            /\ ClosingBrace(s, i) <= Len(s)
       THEN S_42 \o EvalTemplateFrom(s, ClosingBrace(s, i) + 1)
       ELSE <<s[i]>> \o EvalTemplateFrom(s, i + 1)

RequestPath(method) == EvalTemplateFrom(method.urlPath, 1)

\* the path with every {placeholder} replaced by "42"
RECURSIVE ClaimedPathFrom(_, _)
ClaimedPathFrom(path, i) ==
  IF i > Len(path) THEN <<>>
  ELSE IF path[i] = "{" /\ ClosingBrace(path, i) <= Len(path)
       THEN S_42 \o ClaimedPathFrom(path, ClosingBrace(path, i) + 1)
       ELSE <<path[i]>> \o ClaimedPathFrom(path, i + 1)

\* C14: for every endpoint the URL the emitted method requests has every
\* {param} placeholder of the path replaced by the caller's argument and
\* holds no literal {...}; GET /users/{id} called with id = "42" requests
\* /users/42.
C14_PlaceholdersSubstituted ==
  out.t = "artifacts" =>
     \A i \in DOMAIN out.client.methods :
        LET e == parseEndpoints(spec).v[i]
            url == RequestPath(out.client.methods[i])
        IN  /\ url = ClaimedPathFrom(e.path, 1)
            /\ "{" \notin Range(url)
            /\ e.path = S_usersId => url = S_users \o <<"/">> \o S_42

\* the operation declares a request body, as requestBody or as a
\* parameter in: body
DeclaresBody(op) ==
  \/ Truthy(Prop(op, "requestBody"))
  \/ \E k \in DOMAIN DeclaredParameters(op) :
        Prop(DeclaredParameters(op)[k], "in") = Lit("body")

\* C15: the emitted methods for GET and DELETE send no request body; those
\* for POST, PUT and PATCH send the body parameter as the payload when the
\* endpoint has one and an empty object otherwise: POST /items with a JSON
\* request body sends the caller's object as the payload.
C15_BodyForwarded ==
  out.t = "artifacts" =>
     \A i \in DOMAIN out.client.methods :
        LET e == parseEndpoints(spec).v[i]
            m == out.client.methods[i]
        IN  /\ toLowerCase(e.method) \in {S_get, S_delete} => m.body = "none"
            /\ toLowerCase(e.method) \in {S_post, S_put, S_patch} =>
                  m.body = IF DeclaresBody(DeclaredOperation(spec, e))
                           THEN "params" ELSE "{}"

\* the names the emitted method appends to the query string when the caller
\* defines the arguments in provided: line 157, under the check of line 156
QueryAppended(method, provided) ==
  LET Sent(q) == ~q.guarded \/ q.name \in provided
      sent == SelectSeq(method.query, Sent)
  IN  [k \in DOMAIN sent |-> sent[k].name]

IsRequired(param) == Prop(param, "required") = Bool(TRUE)

\* the names C16 says are appended
ClaimedAppended(op, provided) ==
  LET InQuery(p) == Prop(p, "in") = Lit("query")
      Sent(p) == IsRequired(p) \/ Prop(p, "name") \in provided
      sent == SelectSeq(SelectSeq(DeclaredParameters(op), InQuery), Sent)
  IN  [k \in DOMAIN sent |-> Prop(sent[k], "name")]

ParameterNames(op) ==
  {Prop(DeclaredParameters(op)[k], "name") : k \in DOMAIN DeclaredParameters(op)}

\* C16: in every emitted method a required query parameter is always
\* appended to the query string and an optional one only when its argument
\* is not undefined; and the parameter type of the method marks as optional
\* exactly the parameters that are not required.
C16_QueryParametersSerialized ==
  out.t = "artifacts" =>
     \A i \in DOMAIN out.client.methods :
        LET e == parseEndpoints(spec).v[i]
            op == DeclaredOperation(spec, e)
            declared == DeclaredParameters(op)
        IN  /\ \A provided \in SUBSET ParameterNames(op) :
                  QueryAppended(out.client.methods[i], provided)
                    = ClaimedAppended(op, provided)
            /\ declared # <<>> =>
                  \E d \in DOMAIN out.types.decls :
                     LET decl == out.types.decls[d] IN
                     /\ decl.kind = "Params"
                     /\ decl.name = out.client.methods[i].name
                     /\ DOMAIN decl.fields = DOMAIN declared
                     /\ \A k \in DOMAIN declared :
                           /\ decl.fields[k].name = Prop(declared[k], "name")
                           /\ decl.fields[k].optional <=> ~IsRequired(declared[k])

\* C16, the case: the client of GET /search, with q required and limit
\* optional
C16_SearchClientEmitted ==
  /\ out.t = "artifacts"
  /\ \E i \in DOMAIN out.client.methods :
        LET m == out.client.methods[i] IN
        /\ Len(m.query) = 2
        /\ m.query[1].name = Str(S_q) /\ ~m.query[1].guarded
        /\ m.query[2].name = Str(S_limit) /\ m.query[2].guarded
        /\ QueryAppended(m, {}) = <<Str(S_q)>>
        /\ QueryAppended(m, {Str(S_limit)}) = <<Str(S_q), Str(S_limit)>>

\* C17: the clientType option selects the transport: the emitted methods
\* use the axios call pattern when it is "axios" and the fetch call pattern
\* when it is "fetch", and the manifest declares the one transport
\* dependency clientType implies (axios only for an axios client).
C17_ClientTypeSelectsTransport ==
  out.t = "artifacts" =>
     /\ out.client.transport = opts.clientType.lit
     /\ "axios" \in out.packageJson.dependencies <=> opts.clientType = Lit("axios")
     /\ Cardinality(out.packageJson.dependencies) = 1

Min(a, b) == IF a < b THEN a ELSE b

\* C18: the examples artifact is the empty string exactly when
\* includeExamples is false; when it is true the artifact constructs the
\* client and calls the first min(3, n) generated methods of the n
\* endpoints, in the order of the endpoints.
C18_ExamplesFollowOption ==
  out.t = "artifacts" =>
     /\ out.examples = Lit("") <=> opts.includeExamples = Bool(FALSE)
     /\ opts.includeExamples = Bool(TRUE) =>
           /\ out.examples.className = out.client.className
           /\ Len(out.examples.calls) = Min(3, Len(parseEndpoints(spec).v))
           /\ \A k \in DOMAIN out.examples.calls :
                 out.examples.calls[k].name = out.client.methods[k].name

\* C18, the case: the examples of a client of more than three methods
C18_MoreThanThreeEndpoints ==
  /\ out.t = "artifacts"
  /\ Len(out.client.methods) > 3
  /\ opts.includeExamples = Bool(TRUE)
  /\ Len(out.examples.calls) = 3

Fetched == pc \in {"fetched", "generated", "failed", "done"}

\* C19: fetchOpenApiSpec tries its candidates one at a time in a fixed
\* order (the given URL first when it looks like a specification URL, then
\* the five conventional paths), starts no request before the previous one
\* has settled, returns the document of the first candidate that answers OK
\* with a body that has openapi or swagger, issues no request after it, and
\* makes at most six requests.
C19_CandidatesTriedInOrder ==
  LET n == Len(requests) IN
  /\ n <= 6
  /\ n > 0 => requests[1].cand \in {0, 1}
  /\ \A k \in 1..n : requests[k].cand = requests[1].cand + (k - 1)
  /\ \A k \in 1..n : requests[k].cand \in 0..PossibleUrls
  /\ \A k \in 1..(n - 1) : requests[k].state = "settled" /\ ~requests[k].shaped
  /\ (n > 0 /\ requests[n].state = "pending") <=> pc = "awaiting"
  /\ (n > 0 /\ requests[n].shaped) => (pc = "fetched" /\ doc # None)
  /\ (pc = "fetched" /\ doc # None) =>
        /\ n > 0 /\ requests[n].shaped
        /\ HasVersionField(doc)
        /\ spec.paths = OrElse(Prop(doc, "paths"), EmptyObj)
  /\ (pc = "fetched" /\ doc = None) =>
        /\ n > 0 /\ requests[n].cand = PossibleUrls
        /\ \A k \in 1..n : ~requests[k].shaped

\* C19, the case: the third request answered with a document, after the
\* given URL and the first conventional path failed
C19_ThirdCandidateAnswers ==
  /\ pc = "fetched" /\ doc # None
  /\ Len(requests) = 3
  /\ requests[1].cand = 0
  /\ requests[3].shaped

\* C20: no failure of a candidate URL (a network error, a status that is
\* not OK, a body that does not parse or is no OpenAPI document) reaches
\* the caller: when every candidate has failed the fetch step still returns
\* a synthetic specification and the generation returns its result, not an
\* error.
C20_CandidateFailuresNotSurfaced ==
  /\ (pc = "fetched" /\ doc = None) => spec \in {createBasicSpec(i) : i \in ApiInfos}
  /\ (Returned /\ doc = None) => out.t = "artifacts"
  /\ (pc \in {"ext_done", "ext_failed"} /\ (doc = None \/ ~HasVersionField(doc))) =>
        out.t = "endpoint"

(***************************************************************************)
(* src/src/rapidapiClient.ts: the configuration of RapidApiClient, the     *)
(* request it sends through its interceptor, and the snippets it renders.  *)
(* An object of headers is a map whose entries keep their insertion order; *)
(* a rendered text is the sequence of its pieces.                          *)
(***************************************************************************)
S_KeyHeader == Lit("X-RapidAPI-Key")
S_HostHeader == Lit("X-RapidAPI-Host")

\* headers[name] = value: an own property keeps its place, a new one is last
SetHeader(headers, name, value) ==
  IF \E i \in DOMAIN headers.kv : headers.kv[i].k = name
  THEN Map([i \in DOMAIN headers.kv |->
              IF headers.kv[i].k = name THEN [k |-> name, v |-> value]
              ELSE headers.kv[i]])
  ELSE Map(Append(headers.kv, [k |-> name, v |-> value]))

\* headers[name]
GetHeader(headers, name) ==
  IF \E i \in DOMAIN headers.kv : headers.kv[i].k = name
  THEN headers.kv[CHOOSE i \in DOMAIN headers.kv : headers.kv[i].k = name].v
  ELSE Undef

\* rapidapiClient.ts:25-35; the spread of userConfig writes back the
\* properties userConfig has, whatever their values
loadConfig(userConfig, settingsKey, envKey, envHost) ==
  LET apiKey == OrElse(OrElse(OptProp(userConfig, "apiKey"), settingsKey), envKey)
      host == OrElse(OptProp(userConfig, "host"), envHost)
  IN  [t |-> "object",
       apiKey |-> IF userConfig.t = "object" /\ "apiKey" \in DOMAIN userConfig
                  THEN userConfig.apiKey ELSE apiKey,
       host |-> IF userConfig.t = "object" /\ "host" \in DOMAIN userConfig
                THEN userConfig.host ELSE host]

\* rapidapiClient.ts:48-64: the request interceptor installed by createClient
RequestInterceptor(config, axiosConfig) ==
  LET withKey == IF Truthy(config.apiKey)
                 THEN SetHeader(axiosConfig.headers, S_KeyHeader, config.apiKey)
                 ELSE axiosConfig.headers
      withHost == IF Truthy(config.host)
                  THEN SetHeader(withKey, S_HostHeader, config.host)
                  ELSE withKey
  IN  [axiosConfig EXCEPT !.headers = withHost]

\* rapidapiClient.ts:115-127: the configuration request() hands to axios
RequestConfig(options) ==
  LET withKey == IF Truthy(options.rapidApiKey)
                 THEN SetHeader(options.headers, S_KeyHeader, options.rapidApiKey)
                 ELSE options.headers
      withHost == IF Truthy(options.rapidApiHost)
                  THEN SetHeader(withKey, S_HostHeader, options.rapidApiHost)
                  ELSE withKey
  IN  [options EXCEPT !.headers = withHost]

\* ['POST', 'PUT', 'PATCH'].includes(method.toUpperCase())
SendsData(options) ==
  /\ Truthy(options.data)
  /\ toUpperCase(options.method) \in
       {<<"P","O","S","T">>, <<"P","U","T">>, <<"P","A","T","C","H">>}

\* the pieces ` -H "${key}: ${value}"` of every entry, in order
RECURSIVE CurlHeaders(_)
CurlHeaders(kv) ==
  IF kv = <<>> THEN <<>>
  ELSE <<Lit(" -H "), kv[1].k, Lit(": "), kv[1].v>> \o CurlHeaders(Tail(kv))

\* rapidapiClient.ts:231-257
generateCurlCommand(config, options) ==
  <<Lit("curl -X "), Str(toUpperCase(options.method))>>
    \o CurlHeaders(options.headers.kv)
    \o (IF Truthy(config.apiKey)
        THEN <<Lit(" -H "), S_KeyHeader, Lit(": "), config.apiKey>> ELSE <<>>)
    \o (IF Truthy(config.host)
        THEN <<Lit(" -H "), S_HostHeader, Lit(": "), config.host>> ELSE <<>>)
    \o (IF SendsData(options) THEN <<Lit(" -d "), options.data>> ELSE <<>>)
    \o <<Lit(" "), options.url>>

\* JSON.stringify(headersObj, null, 2): every entry, in order
RECURSIVE JsonEntries(_)
JsonEntries(kv) ==
  IF kv = <<>> THEN <<>>
  ELSE <<kv[1].k, Lit(": "), kv[1].v>> \o JsonEntries(Tail(kv))

\* rapidapiClient.ts:276-286 and 311-321: headersObj
SnippetHeaders(config, options) ==
  LET base == Map(<<[k |-> Lit("Content-Type"), v |-> Lit("application/json")]>>
                    \o options.headers.kv)
      withKey == IF Truthy(config.apiKey)
                 THEN SetHeader(base, S_KeyHeader, config.apiKey) ELSE base
  IN  IF Truthy(config.host)
      THEN SetHeader(withKey, S_HostHeader, config.host) ELSE withKey

\* rapidapiClient.ts:273-306
generateJavaScriptSnippet(config, options) ==
  <<Lit("const options = { method: "), Str(toUpperCase(options.method)),
    Lit(", headers: ")>>
    \o JsonEntries(SnippetHeaders(config, options).kv)
    \o (IF SendsData(options) THEN <<Lit(", body: JSON.stringify("), options.data>>
        ELSE <<>>)
    \o <<Lit("}; fetch("), options.url, Lit(", options)")>>

\* rapidapiClient.ts:308-344
generatePythonSnippet(config, options) ==
  <<Lit("import requests url = "), options.url, Lit(" headers = ")>>
    \o JsonEntries(SnippetHeaders(config, options).kv)
    \o (IF SendsData(options)
        THEN <<Lit(" payload = "), options.data, Lit(" response = requests.request("),
               Str(toUpperCase(options.method)), Lit(", url, json=payload, headers=headers)")>>
        ELSE <<Lit(" response = requests.request("),
               Str(toUpperCase(options.method)), Lit(", url, headers=headers)")>>)
    \o <<Lit(" print(response.text)")>>

\* rapidapiClient.ts:259-271
generateCodeSnippet(config, options, language) ==
  CASE language = "curl" -> generateCurlCommand(config, options)
    [] language = "python" -> generatePythonSnippet(config, options)
    [] OTHER -> generateJavaScriptSnippet(config, options)

\* the inputs: two keys and two hosts, an absent one and an empty one
ApiKeys == {Lit("key-A"), Lit("key-B")}
ApiHosts == {Lit("a.p.rapidapi.com"), Lit("b.p.rapidapi.com")}
UserConfigs ==
  {Undef, [t |-> "object"]}
    \cup {[t |-> "object", apiKey |-> k] : k \in ApiKeys \cup {Lit("")}}
    \cup {[t |-> "object", apiKey |-> k, host |-> h] : k \in ApiKeys, h \in ApiHosts}
HeaderSets ==
  {EmptyObj, Map(<<[k |-> Lit("Accept"), v |-> Lit("application/json")]>>)}
RequestOptionSets ==
  {[t |-> "object", method |-> m, url |-> Lit("https://a.p.rapidapi.com/search"),
    headers |-> h, data |-> d, rapidApiKey |-> k, rapidApiHost |-> ho] :
     m \in {<<"g","e","t">>, <<"p","o","s","t">>}, h \in HeaderSets,
     d \in {Undef, Lit("{q: 1}")},
     k \in ApiKeys \cup {Undef}, ho \in ApiHosts \cup {Undef}}
Languages == {"curl", "javascript", "python"}

\* rapidapiClient.ts:20-23: the client after its construction
InitClient ==
  /\ pc = "client_ready"
  /\ \E u \in UserConfigs, sk \in {Undef, Lit("key-A")}, ek \in {Undef, Lit("key-B")},
        eh \in {Undef, Lit("b.p.rapidapi.com")} :
       env = loadConfig(u, sk, ek, eh)
  /\ req = None
  /\ outbound = <<>>
  /\ reply = <<>>
  /\ fs = None
  /\ fs0 = None
  /\ cand = 0 /\ apiInfo = None /\ doc = None /\ spec = None /\ opts = None
  /\ out = None /\ out2 = None /\ clock = 0 /\ call = None /\ requests = <<>>

\* rapidapiClient.ts:113-129: request() builds the configuration and hands it
\* to the axios instance
Request ==
  /\ pc = "client_ready"
  /\ \E o \in RequestOptionSets :
       req' = [fn |-> "request", options |-> o, config |-> RequestConfig(o)]
  /\ pc' = "intercepting"
  /\ UNCHANGED <<genVars, fs, fs0, env, outbound, reply>>

\* rapidapiClient.ts:48-64: the interceptor runs on that configuration and
\* the request leaves
Intercept ==
  /\ pc = "intercepting"
  /\ outbound' = Append(outbound, RequestInterceptor(env, req.config))
  /\ pc' = "sent"
  /\ UNCHANGED <<genVars, fs, fs0, env, req, reply>>

\* rapidapiClient.ts:259-271
GenerateSnippet ==
  /\ pc = "client_ready"
  /\ \E o \in RequestOptionSets, l \in Languages :
       /\ req' = [fn |-> "generateCodeSnippet", options |-> o, language |-> l]
       /\ reply' = <<generateCodeSnippet(env, o, l)>>
  /\ pc' = "rendered"
  /\ UNCHANGED <<genVars, fs, fs0, env, outbound>>

NextClient ==
  \/ Request
  \/ Intercept
  \/ GenerateSnippet

SpecClient == InitClient /\ [][NextClient]_vars

\* the pieces of a rendered text that are the value v
Mentions(text, v) == \E i \in DOMAIN text : text[i] = v

\* C21: no generated text contains the configured API key or host as a
\* literal: a rendered snippet has no piece that is the configured key or
\* host, and it is the same text under every configuration that differs
\* from the client's only in the API key.
C21_NoCredentialInGeneratedText ==
  pc = "rendered" =>
    /\ Truthy(env.apiKey) => ~Mentions(reply[1], env.apiKey)
    /\ Truthy(env.host) => ~Mentions(reply[1], env.host)
    /\ \A k \in ApiKeys :
         generateCodeSnippet([env EXCEPT !.apiKey = k], req.options, req.language)
           = reply[1]

\* C25: when the options of request() carry rapidApiKey or rapidApiHost, the
\* request that leaves has those values in its X-RapidAPI-Key and
\* X-RapidAPI-Host headers, whatever key and host the client was configured
\* with.
C25_PerRequestOverrideSurvives ==
  pc = "sent" =>
    LET o == req.options
        h == outbound[Len(outbound)].headers
    IN  /\ Truthy(o.rapidApiKey) => GetHeader(h, S_KeyHeader) = o.rapidApiKey
        /\ Truthy(o.rapidApiHost) => GetHeader(h, S_HostHeader) = o.rapidApiHost

(***************************************************************************)
(* src/index.js: create_or_update_file and askConfirmation.  A path is the *)
(* sequence of its components below the working directory; the filesystem *)
(* gives every path of FilePaths its node: nothing, a directory, or a file *)
(* with its content.                                                       *)
(***************************************************************************)
\* the longest answer typed at the confirmation prompt
MaxAnswerLen == 3

NoNode == [t |-> "absent"]
DirNode == [t |-> "dir"]
FileNode(content) == [t |-> "file", content |-> content]

FilePaths == {<<"a">>, <<"d">>, <<"d","e">>, <<"d","e","c">>}

\* path.dirname(p); <<>> is '.', the working directory
dirname(p) == SubSeq(p, 1, Len(p) - 1)

\* fs.existsSync(p)
existsSync(f, p) == p = <<>> \/ f[p].t # "absent"

\* the outcome of a call that changes the filesystem: it returned, or threw
Done(f) == [threw |-> FALSE, fs |-> f]
Threw(f) == [threw |-> TRUE, fs |-> f]

\* fs.mkdirSync(dir): the parent has to be a directory and dir must not exist
mkdirSyncPlain(f, dir) ==
  IF existsSync(f, dir) \/ ~existsSync(f, dirname(dir))
     \/ (dirname(dir) # <<>> /\ f[dirname(dir)].t # "dir")
  THEN Threw(f)
  ELSE Done([f EXCEPT ![dir] = DirNode])

\* fs.mkdirSync(dir, { recursive: true }): every missing ancestor and dir
\* itself become directories; it throws when one of them is a file
mkdirSync(f, dir) ==
  LET prefixes == {SubSeq(dir, 1, k) : k \in 1..Len(dir)}
  IN  IF \E q \in prefixes : f[q].t = "file" THEN Threw(f)
      ELSE Done([q \in DOMAIN f |-> IF q \in prefixes THEN DirNode ELSE f[q]])

\* fs.writeFileSync(p, content, 'utf8'): the parent has to be a directory
\* and p must not be one
writeFileSync(f, p, content) ==
  IF \/ ~existsSync(f, dirname(p))
     \/ (dirname(p) # <<>> /\ f[dirname(p)].t # "dir")
     \/ f[p].t = "dir"
  THEN Threw(f)
  ELSE Done([f EXCEPT ![p] = FileNode(content)])

\* s.trim()
RECURSIVE trimStart(_)
trimStart(s) == IF s # <<>> /\ IsSpace(s[1]) THEN trimStart(Tail(s)) ELSE s
RECURSIVE trimEnd(_)
trimEnd(s) ==
  IF s # <<>> /\ IsSpace(s[Len(s)]) THEN trimEnd(SubSeq(s, 1, Len(s) - 1)) ELSE s
trim(s) == trimEnd(trimStart(s))

\* a confirmation that accepts every answer that begins with y
askConfirmationPrefix(answer) ==
  LET a == trim(toLowerCase(answer)) IN a # <<>> /\ a[1] = "y"

\* index.js:66-70: the answer read at the prompt, as a confirmation
askConfirmation(answer) ==
  \/ trim(toLowerCase(answer)) = <<"y">>
  \/ trim(toLowerCase(answer)) = <<"y","e","s">>

\* index.js:36-51: the try block of create_or_update_file
WriteFile(f, p, content) ==
  LET made == IF ~existsSync(f, dirname(p)) THEN mkdirSync(f, dirname(p)) ELSE Done(f)
  IN  IF made.threw THEN made ELSE writeFileSync(made.fs, p, content)

\* the filesystems: below a file or a missing directory there is nothing
FileSystems ==
  {f \in [FilePaths -> {NoNode, DirNode, FileNode("v1")}] :
     \A p \in FilePaths :
       (f[p].t # "absent" /\ dirname(p) # <<>>) => f[dirname(p)].t = "dir"}
FileContents == {"v1", "v2"}
AnswerAlphabet == {"y", "Y", "e", "s", " "}
Answers == StringsUpTo(AnswerAlphabet, MaxAnswerLen)

InitFiles ==
  /\ pc = "file_idle"
  /\ fs \in FileSystems
  /\ fs0 = fs
  /\ env = None
  /\ req = None
  /\ outbound = <<>>
  /\ reply = <<>>
  /\ cand = 0 /\ apiInfo = None /\ doc = None /\ spec = None /\ opts = None
  /\ out = None /\ out2 = None /\ clock = 0 /\ call = None /\ requests = <<>>

\* index.js:14-34: the call; without force the question is put to the user
CallCreateOrUpdateFile ==
  /\ pc = "file_idle"
  /\ \E p \in FilePaths, c \in FileContents, force \in BOOLEAN :
       /\ req' = [fn |-> "create_or_update_file", path |-> p, content |-> c,
                  force |-> force, answer |-> <<>>]
       /\ IF force
          THEN pc' = "file_writing" /\ UNCHANGED outbound
          ELSE /\ pc' = "file_asking"
               /\ outbound' = Append(outbound, "askConfirmation")
  /\ UNCHANGED <<genVars, fs, fs0, env, reply>>

\* index.js:29-33 and 66-70: the user answers; anything but a confirmation
\* ends the call
AnswerConfirmation ==
  /\ pc = "file_asking"
  /\ \E a \in Answers :
       /\ req' = [req EXCEPT !.answer = a]
       /\ IF askConfirmation(a)
          THEN pc' = "file_writing" /\ UNCHANGED reply
          ELSE pc' = "file_returned" /\ reply' = <<Bool(FALSE)>>
  /\ UNCHANGED <<genVars, fs, fs0, env, outbound>>

\* index.js:36-51
WriteAndReturn ==
  /\ pc = "file_writing"
  /\ LET r == WriteFile(fs, req.path, req.content)
     IN  /\ fs' = r.fs
         /\ reply' = <<Bool(~r.threw)>>
  /\ pc' = "file_returned"
  /\ UNCHANGED <<genVars, fs0, env, req, outbound>>

NextFiles ==
  \/ CallCreateOrUpdateFile
  \/ AnswerConfirmation
  \/ WriteAndReturn

SpecFiles == InitFiles /\ [][NextFiles]_vars

\* a path at which a file can be written: it is no directory and none of
\* its ancestors is a file
CanHoldFile(f, p) ==
  /\ f[p].t # "dir"
  /\ \A k \in 1..(Len(p) - 1) : f[SubSeq(p, 1, k)].t # "file"

\* C22, as stated: with force = true the call asks nothing, returns true and
\* the file at the path then holds exactly the content, whether the file is
\* new, existed before or its parent directories were missing.
C22_ForcedWriteSucceeds ==
  (pc = "file_returned" /\ req.force) =>
    /\ outbound = <<>>
    /\ reply = <<Bool(TRUE)>>
    /\ fs[req.path] = FileNode(req.content)

\* C22, amended: that holds when the path can hold a file (it is no
\* directory and no ancestor of it is a file); otherwise the forced call
\* also asks nothing, returns false and leaves the filesystem as it was.
\* In both cases nothing but the file and its missing ancestors changes.
C22_ForcedWriteSucceedsWherePossible ==
  (pc = "file_returned" /\ req.force) =>
    /\ outbound = <<>>
    /\ CanHoldFile(fs0, req.path) =>
         /\ reply = <<Bool(TRUE)>>
         /\ fs[req.path] = FileNode(req.content)
         /\ \A k \in 1..(Len(req.path) - 1) : fs[SubSeq(req.path, 1, k)] = DirNode
         /\ \A q \in FilePaths :
              (\A k \in 1..Len(req.path) : q # SubSeq(req.path, 1, k)) => fs[q] = fs0[q]
    /\ ~CanHoldFile(fs0, req.path) => (reply = <<Bool(FALSE)>> /\ fs = fs0)

\* C22, the case: a forced call has created the file d/e/c together with
\* its two missing parent directories
C22_NestedFileCreated ==
  /\ pc = "file_returned" /\ req.force
  /\ req.path = <<"d","e","c">>
  /\ fs0[<<"d">>] = NoNode
  /\ fs[<<"d","e">>] = DirNode
  /\ fs[req.path] = FileNode(req.content)
  /\ reply = <<Bool(TRUE)>>

\* the answers the claim counts as a confirmation: y or yes once trimmed
\* and lower-cased
IsYes(answer) ==
  LET inner == {k \in DOMAIN answer : ~IsSpace(answer[k])}
      core == IF inner = {} THEN <<>>
              ELSE SubSeq(answer, CHOOSE k \in inner : \A j \in inner : k <= j,
                                  CHOOSE k \in inner : \A j \in inner : k >= j)
  IN  toLowerCase(core) \in {<<"y">>, <<"y","e","s">>}

\* C23: without force the question is asked before anything changes, and
\* unless the answer, trimmed and lower-cased, is y or yes the call returns
\* false and leaves every file and directory as it was.
C23_NoChangeWithoutConfirmation ==
  (req # None /\ ~req.force) =>
    /\ outbound = <<"askConfirmation">>
    /\ pc = "file_asking" => fs = fs0
    /\ fs # fs0 => IsYes(req.answer)
    /\ (pc = "file_returned" /\ ~IsYes(req.answer)) =>
         (reply = <<Bool(FALSE)>> /\ fs = fs0)
    /\ (pc = "file_writing") => IsYes(req.answer)

\* C23, the case: the answer "ye" to a call that would have overwritten an
\* existing file
C23_DeclinedOverwrite ==
  /\ pc = "file_returned" /\ ~req.force
  /\ req.answer = <<"y","e">>
  /\ fs0[req.path] = FileNode("v1") /\ req.content = "v2"
  /\ reply = <<Bool(FALSE)>>

(***************************************************************************)
(* src/unnamed/part_005: ApiExplorerProvider, the tree of the API          *)
(* Explorer.  A label or a file name is the sequence of its parts, so that *)
(* endsWith('Client.ts') and replace('Client.ts', '') are computed on it.  *)
(***************************************************************************)
\* part_005:251-261: new ApiItem(label, collapsibleState, contextValue, categoryId)
ApiItem(label, collapsibleState, contextValue, categoryId) ==
  [label |-> label, collapsibleState |-> collapsibleState,
   contextValue |-> contextValue, categoryId |-> categoryId]

\* xs.map(f) for the label of each item
RECURSIVE ItemsOf(_, _, _)
ItemsOf(labels, collapsibleState, contextValue) ==
  IF labels = <<>> THEN <<>>
  ELSE <<ApiItem(labels[1], collapsibleState, contextValue, "")>>
         \o ItemsOf(Tail(labels), collapsibleState, contextValue)

\* files.filter(file => file.endsWith('Client.ts'))
RECURSIVE ClientFiles(_)
ClientFiles(files) ==
  IF files = <<>> THEN <<>>
  ELSE (IF files[1][Len(files[1])] = "Client.ts" THEN <<files[1]>> ELSE <<>>)
         \o ClientFiles(Tail(files))

\* file.replace('Client.ts', ''): the first occurrence goes
RECURSIVE WithoutClientTs(_)
WithoutClientTs(file) ==
  IF file = <<>> THEN <<>>
  ELSE IF file[1] = "Client.ts" THEN Tail(file)
  ELSE <<file[1]>> \o WithoutClientTs(Tail(file))

Placeholder == ApiItem(<<"No APIs generated yet">>, "None", "placeholder", "")

\* part_005:75-128; dir is the output directory: absent, unreadable, or its
\* files
getGeneratedApis(workspaceRoot, dir) ==
  IF ~Truthy(workspaceRoot) THEN <<>>
  ELSE IF dir.t = "absent" THEN <<Placeholder>>
  ELSE IF dir.t = "unreadable"
       THEN <<ApiItem(<<"Error loading APIs">>, "None", "error", "")>>
  ELSE LET apiFiles == ClientFiles(dir.files) IN
       IF Len(apiFiles) = 0 THEN <<Placeholder>>
       ELSE ItemsOf([i \in DOMAIN apiFiles |-> WithoutClientTs(apiFiles[i])],
                    "None", "generated-api")

\* part_005:131-152
Categories ==
  << <<"Weather">>, <<"Finance">>, <<"Social Media">>, <<"News">>, <<"Sports">>,
     <<"Entertainment">>, <<"E-commerce">>, <<"Travel">>, <<"Food & Recipes">>,
     <<"Health & Fitness">>, <<"Education">>, <<"Business">>, <<"Communication">>,
     <<"Data & Analytics">>, <<"Machine Learning">>, <<"IoT">>, <<"Gaming">>,
     <<"Photography">>, <<"Music">>, <<"Video">> >>

\* part_005:130-165
getRapidApiCategories == ItemsOf(Categories, "Collapsed", "rapidapi-category")

\* part_005:167-196
getRecentApis ==
  ItemsOf(<< <<"Weather API">>, <<"News API">>, <<"Currency API">> >>, "None", "recent-api")

\* part_005:198-248
getRapidApisByCategory(category) ==
  ItemsOf(CASE category = <<"Weather">> ->
                 << <<"WeatherAPI">>, <<"OpenWeatherMap">>, <<"AccuWeather">> >>
            [] category = <<"Finance">> ->
                 << <<"Alpha Vantage">>, <<"Fixer.io">>, <<"Yahoo Finance">> >>
            [] category = <<"News">> ->
                 << <<"NewsAPI">>, <<"NewsCatcher">>, <<"Bing News">> >>
            [] OTHER -> << <<"Sample ">> \o category \o <<" API">> >>,
          "None", "rapidapi-api")

\* part_005:56-73: the switch is on the contextValue of the element
getApiChildren(workspaceRoot, dir, element) ==
  CASE element.contextValue = "generated" -> getGeneratedApis(workspaceRoot, dir)
    [] element.contextValue = "rapidapi" -> getRapidApiCategories
    [] element.contextValue = "recent" -> getRecentApis
    [] element.contextValue = "rapidapi-category" -> getRapidApisByCategory(element.label)
    [] OTHER -> <<>>

\* part_005:23-54; element = None is the call without an element
getChildren(workspaceRoot, dir, element) ==
  IF ~Truthy(workspaceRoot) THEN <<>>
  ELSE IF element = None
       THEN << ApiItem(<<"Generated APIs">>, "Expanded", "category", "generated"),
               ApiItem(<<"RapidAPI Hub">>, "Collapsed", "category", "rapidapi"),
               ApiItem(<<"Recent">>, "Collapsed", "category", "recent") >>
  ELSE getApiChildren(workspaceRoot, dir, element)

\* the files an output directory may hold, in the order readdir lists them
OutputFiles ==
  << <<"Client.ts">>, <<"Pet", "Client.ts">>, <<"User", "Client.ts">>,
     <<"User", "Client.ts", ".bak">>, <<"index.ts">> >>
RECURSIVE Listing(_, _)
Listing(files, keep) ==
  IF files = <<>> THEN <<>>
  ELSE (IF Len(files) \in keep THEN <<files[1]>> ELSE <<>>) \o Listing(Tail(files), keep)
OutputDirs ==
  {[t |-> "absent"], [t |-> "unreadable"]}
    \cup {[t |-> "dir", files |-> Listing(OutputFiles, keep)] :
            keep \in SUBSET (1..Len(OutputFiles))}

\* part_005:11-13: the provider after its construction, nothing shown yet
InitExplorer ==
  /\ pc = "tree_idle"
  /\ env \in {[workspaceRoot |-> w] : w \in {Undef, Lit("/ws")}}
  /\ fs \in OutputDirs
  /\ fs0 = fs
  /\ req = None
  /\ outbound = <<>>
  /\ reply = <<>>
  /\ cand = 0 /\ apiInfo = None /\ doc = None /\ spec = None /\ opts = None
  /\ out = None /\ out2 = None /\ clock = 0 /\ call = None /\ requests = <<>>

\* the view asks for the roots: getChildren()
ShowRoots ==
  /\ pc = "tree_idle"
  /\ req' = [fn |-> "getChildren", element |-> None]
  /\ reply' = <<getChildren(env.workspaceRoot, fs, None)>>
  /\ outbound' = IF Truthy(env.workspaceRoot) THEN outbound
                 ELSE Append(outbound, "No workspace found")
  /\ pc' = "tree_shown"
  /\ UNCHANGED <<genVars, fs, fs0, env>>

\* the user expands an item that the view shows: getChildren(element)
Expand ==
  /\ pc = "tree_shown"
  /\ \E i \in DOMAIN reply[1] :
       /\ reply[1][i].collapsibleState # "None"
       /\ req' = [fn |-> "getChildren", element |-> reply[1][i]]
       /\ reply' = <<getChildren(env.workspaceRoot, fs, reply[1][i])>>
  /\ UNCHANGED <<genVars, fs, fs0, env, outbound, pc>>

NextExplorer ==
  \/ ShowRoots
  \/ Expand

SpecExplorer == InitExplorer /\ [][NextExplorer]_vars

\* the root category with a given label has been expanded
Expanded(label) ==
  /\ pc = "tree_shown" /\ req.element # None
  /\ req.element.label = label /\ req.element.contextValue = "category"

\* C24: with a workspace open, expanding "Generated APIs" yields one item
\* per *Client.ts file of the output directory (or the placeholder),
\* "RapidAPI Hub" yields the categories and "Recent" the recent APIs; the
\* children of a root category are never the empty list.
C24_RootCategoriesHaveChildren ==
  /\ Expanded(<<"Generated APIs">>) =>
       /\ reply[1] # <<>>
       /\ (fs.t = "dir" /\ ClientFiles(fs.files) # <<>>) =>
            /\ Len(reply[1]) = Len(ClientFiles(fs.files))
            /\ \A i \in DOMAIN reply[1] : reply[1][i].contextValue = "generated-api"
       /\ (fs.t = "absent" \/ (fs.t = "dir" /\ ClientFiles(fs.files) = <<>>)) =>
            reply[1] = <<Placeholder>>
  /\ Expanded(<<"RapidAPI Hub">>) =>
       /\ Len(reply[1]) = Len(Categories)
       /\ \A i \in DOMAIN reply[1] : reply[1][i].label = Categories[i]
  /\ Expanded(<<"Recent">>) =>
       /\ reply[1] # <<>>
       /\ \A i \in DOMAIN reply[1] : reply[1][i].contextValue = "recent-api"

(***************************************************************************)
(* src/notion_api_backend.js, lines 1-311: the Express proxy in front of   *)
(* the Notion API.  One request is followed from its arrival to its        *)
(* response; reply is the sequence of the responses sent for it, outbound  *)
(* the sequence of the requests sent to Notion for it.                     *)
(***************************************************************************)
\* the longest of the short keys that NOTION_API_KEY is set to
MaxKeyLen == 8
\* notion_api_backend.js:75: substring(0, 7), '*'.repeat(20), length - 5
MaskHead == 7
MaskStars == 20
MaskTail == 5
\* notion_api_backend.js:347: apiKey.length !== 32
ExpectedKeyLength == 32
\* notion_api_backend.js:378: /^[0-9a-f]{32}$/i
DatabaseIdLength == 32

S_PlaceholderKey ==
  Str(<<"y","o","u","r","_","n","o","t","i","o","n","_","i","n","t","e","g","r","a","t",
        "i","o","n","_","s","e","c","r","e","t","_","k","e","y","_","h","e","r","e">>)

\* s.substring(from, to): both ends are clamped to the string, and swapped
\* when from is the larger
substring(s, from, to) ==
  LET clamp(i) == IF i < 0 THEN 0 ELSE IF i > Len(s) THEN Len(s) ELSE i
      a == clamp(from)
      b == clamp(to)
  IN  IF a <= b THEN SubSeq(s, a + 1, b) ELSE SubSeq(s, b + 1, a)

\* notion_api_backend.js:75
MaskKey(key) ==
  substring(key, 0, MaskHead) \o [i \in 1..MaskStars |-> "*"]
    \o substring(key, Len(key) - MaskTail, Len(key))

\* a middleware that rejects only a key that is not set
validateApiKeyUnsetOnly(key) == Truthy(key)

\* notion_api_backend.js:56-66: TRUE when next() is called
validateApiKey(key) == ~(~Truthy(key) \/ key = S_PlaceholderKey)

ApiRoutes ==
  {"/api/testConnection", "/api/queryDatabase", "/api/createPage", "/api/getDatabaseSchema"}

\* notion_api_backend.js:143-149, 184-198, 236-242: the parameter whose
\* absence ends the handler with 400, or "none"
MissingParameter(route, params) ==
  CASE route \in {"/api/queryDatabase", "/api/getDatabaseSchema"} ->
         IF ~Truthy(params.databaseId) THEN "databaseId" ELSE "none"
    [] route = "/api/createPage" ->
         IF ~Truthy(params.databaseId) THEN "databaseId"
         ELSE IF ~Truthy(params.properties) THEN "properties" ELSE "none"
    [] OTHER -> "none"

\* notion_api_backend.js:104-116, 154-158, 208-210, 247-249: the request to
\* Notion
NotionRequest(route, params) ==
  CASE route = "/api/testConnection" ->
         IF Truthy(params.databaseId)
         THEN [method |-> "GET", url |-> <<"/databases/", params.databaseId>>]
         ELSE [method |-> "GET", url |-> <<"/users/me">>]
    [] route = "/api/queryDatabase" ->
         [method |-> "POST", url |-> <<"/databases/", params.databaseId, "/query">>]
    [] route = "/api/createPage" ->
         [method |-> "POST", url |-> <<"/pages">>]
    [] OTHER ->
         [method |-> "GET", url |-> <<"/databases/", params.databaseId>>]

\* the try block after the awaited call returned: the status of the
\* response, 500 after a TypeError on the data
SuccessStatus(route, data) ==
  CASE route = "/api/testConnection" -> 200
    [] route = "/api/queryDatabase" ->
         IF IsNullish(data) \/ IsNullish(Prop(data, "results")) THEN 500 ELSE 200
    [] OTHER -> IF IsNullish(data) THEN 500 ELSE 200

\* error.response?.status || 500
RelayedStatus(error) == IF error.status = 0 THEN 500 ELSE error.status

\* what Notion does with a request: an answer with data, an error status,
\* or no answer at all (status 0)
NotionOutcomes ==
  {[ok |-> TRUE, data |-> d] :
     d \in {Null, [t |-> "object"], [t |-> "object", results |-> Arr(<<>>)]}}
    \cup {[ok |-> FALSE, status |-> s] : s \in {0, 401, 404}}

ShortKey(n) == Str([i \in 1..n |-> IF i % 2 = 1 THEN "s" ELSE "k"])
ServerKeys ==
  {Undef, Str(<<>>), S_PlaceholderKey, ShortKey(ExpectedKeyLength)}
    \cup {ShortKey(n) : n \in 1..MaxKeyLen}
RequestParams ==
  {[databaseId |-> d, properties |-> p] :
     d \in {Undef, Lit(""), Lit("db1")}, p \in {Undef, EmptyObj}}

\* notion_api_backend.js:14-24: the server listens, the key is read
InitServer ==
  /\ pc = "listening"
  /\ env \in {[NOTION_API_KEY |-> k] : k \in ServerKeys}
  /\ req = None
  /\ outbound = <<>>
  /\ reply = <<>>
  /\ fs = None
  /\ fs0 = None
  /\ cand = 0 /\ apiInfo = None /\ doc = None /\ spec = None /\ opts = None
  /\ out = None /\ out2 = None /\ clock = 0 /\ call = None /\ requests = <<>>

\* a request arrives at one of the routes
ReceiveRequest ==
  /\ pc = "listening"
  /\ \E route \in ApiRoutes \cup {"/api/debug-env"}, params \in RequestParams :
       /\ req' = [route |-> route, params |-> params, outcome |-> None]
       /\ pc' = IF route \in ApiRoutes THEN "middleware" ELSE "handler"
  /\ UNCHANGED <<genVars, fs, fs0, env, outbound, reply>>

\* notion_api_backend.js:56-66
ValidateApiKey ==
  /\ pc = "middleware"
  /\ IF validateApiKey(env.NOTION_API_KEY)
     THEN pc' = "handler" /\ UNCHANGED reply
     ELSE /\ reply' = Append(reply, [status |-> 500, error |-> "Server configuration error"])
          /\ pc' = "responded"
  /\ UNCHANGED <<genVars, fs, fs0, env, req, outbound>>

\* notion_api_backend.js:69-92
DebugEnv ==
  /\ pc = "handler" /\ req.route = "/api/debug-env"
  /\ reply' = Append(reply,
       IF Truthy(env.NOTION_API_KEY)
       THEN [status |-> 200, apiKeyMasked |-> MaskKey(env.NOTION_API_KEY.s),
             keyLength |-> Len(env.NOTION_API_KEY.s)]
       ELSE [status |-> 500, error |-> "API Key missing"])
  /\ pc' = "responded"
  /\ UNCHANGED <<genVars, fs, fs0, env, req, outbound>>

\* the handlers up to their awaited call: 400 for a missing parameter,
\* otherwise the request to Notion leaves
HandleRequest ==
  /\ pc = "handler" /\ req.route \in ApiRoutes
  /\ IF MissingParameter(req.route, req.params) # "none"
     THEN /\ reply' = Append(reply, [status |-> 400,
                                     error |-> MissingParameter(req.route, req.params)])
          /\ pc' = "responded"
          /\ UNCHANGED outbound
     ELSE /\ outbound' = Append(outbound, NotionRequest(req.route, req.params))
          /\ pc' = "upstream"
          /\ UNCHANGED reply
  /\ UNCHANGED <<genVars, fs, fs0, env, req>>

\* the awaited call settles: the rest of the try block, or the catch block
NotionSettles ==
  /\ pc = "upstream"
  /\ \E o \in NotionOutcomes :
       /\ req' = [req EXCEPT !.outcome = o]
       /\ reply' = Append(reply,
            IF o.ok THEN [status |-> SuccessStatus(req.route, o.data), error |-> "none"]
            ELSE [status |-> RelayedStatus(o), error |-> "relayed"])
  /\ pc' = "responded"
  /\ UNCHANGED <<genVars, fs, fs0, env, outbound>>

NextServer ==
  \/ ReceiveRequest
  \/ ValidateApiKey
  \/ DebugEnv
  \/ HandleRequest
  \/ NotionSettles

SpecServer == InitServer /\ [][NextServer]_vars

\* needle occurs in hay as a run of consecutive characters
Contains(hay, needle) ==
  \E i \in 0..(Len(hay) - Len(needle)) : SubSeq(hay, i + 1, i + Len(needle)) = needle

\* C26: the response of GET /api/debug-env never discloses the complete
\* key: for every non-empty key, of any length, apiKeyMasked does not
\* contain the whole key.
C26_MaskedKeyHidesKey ==
  (pc = "responded" /\ req.route = "/api/debug-env" /\ reply[1].status = 200) =>
    ~Contains(reply[1].apiKeyMasked, env.NOTION_API_KEY.s)

\* the key counts as not configured: unset, empty, or the placeholder
NotConfigured(key) ==
  key.t = "undefined" \/ key = Str(<<>>) \/ key = S_PlaceholderKey

\* C29: each request to /api/testConnection, /api/queryDatabase,
\* /api/createPage and /api/getDatabaseSchema gets exactly one response;
\* with the key unset or the placeholder it is 500 and nothing was sent to
\* Notion; otherwise with a required databaseId (or properties, for
\* createPage) missing it is 400 and nothing was sent to Notion; otherwise a
\* failure of Notion is relayed with its status, or 500 when it has none.
C29_OneResponsePerRequest ==
  (req # None /\ req.route \in ApiRoutes) =>
    LET need == IF req.route = "/api/testConnection" THEN {}
                ELSE IF req.route = "/api/createPage" THEN {"databaseId", "properties"}
                ELSE {"databaseId"}
        missing == \E f \in need : req.params[f] \in {Undef, Lit("")}
    IN  /\ Len(reply) <= 1
        /\ Len(outbound) <= 1
        /\ Len(reply) = 1 <=> pc = "responded"
        /\ pc = "responded" =>
             IF NotConfigured(env.NOTION_API_KEY)
             THEN reply[1].status = 500 /\ outbound = <<>>
             ELSE IF missing
             THEN reply[1].status = 400 /\ outbound = <<>>
             ELSE /\ Len(outbound) = 1
                  /\ req.outcome # None
                  /\ ~req.outcome.ok =>
                       reply[1].status = (IF req.outcome.status = 0 THEN 500
                                          ELSE req.outcome.status)

\* C29, the case: Notion answered 404 to a request that had its key and
\* its parameters, and the one response relays the 404
C29_UpstreamFailureRelayed ==
  /\ pc = "responded" /\ req.route = "/api/createPage"
  /\ req.outcome # None /\ ~req.outcome.ok /\ req.outcome.status = 404
  /\ reply = <<[status |-> 404, error |-> "relayed"]>>

(***************************************************************************)
(* src/notion_api_backend.js, lines 312-771: NotionApiDebugger and its     *)
(* runDiagnostic.  req holds the database id, the results object and the   *)
(* steps run so far with their outcomes; outbound is the sequence of the   *)
(* calls made to Notion.                                                   *)
(***************************************************************************)
\* notion_api_backend.js:334-360
verifyEnvironmentVariable(apiKey) ==
  IF ~Truthy(apiKey) THEN FALSE
  ELSE IF Len(apiKey.s) # ExpectedKeyLength THEN FALSE
  ELSE TRUE

\* databaseId.replace(/-/g, '')
RECURSIVE WithoutHyphens(_)
WithoutHyphens(s) ==
  IF s = <<>> THEN <<>>
  ELSE (IF s[1] = "-" THEN <<>> ELSE <<s[1]>>) \o WithoutHyphens(Tail(s))

\* [0-9a-f], case ignored
IsHexDigit(c) == IsDigit(c) \/ ToLowerCh(c) \in {"a", "b", "c", "d", "e", "f"}

\* notion_api_backend.js:365-390
validateDatabaseId(databaseId) ==
  IF ~Truthy(databaseId) THEN FALSE
  ELSE LET cleanId == WithoutHyphens(databaseId.s)
       IN  Len(cleanId) = DatabaseIdLength /\ \A i \in DOMAIN cleanId : IsHexDigit(cleanId[i])

\* what runs after the basic connection test, on reading its result without
\* the return of lines 691-694
AfterBasicConnectionUngated(passed, databaseId) ==
  IF Truthy(databaseId) THEN "diag_access" ELSE "diag_returned"

\* notion_api_backend.js:691-697: what runs after the basic connection test
AfterBasicConnection(passed, databaseId) ==
  IF ~passed THEN "diag_returned"
  ELSE IF Truthy(databaseId) THEN "diag_access" ELSE "diag_returned"

\* the results object with one more step done
StepDone(r, step, outcome, passed) ==
  [r EXCEPT !.results[step] = passed,
            !.ran = Append(@, step),
            !.outcomes[step] = outcome]

\* a call to Notion: answered with the data the step reads, answered with
\* no data, or failed
CallOutcomes == {"ok", "nodata", "error"}

DiagnosticSteps ==
  <<"envCheck", "basicConnection", "databaseAccess", "databaseQuery", "pageCreation">>

DatabaseIds ==
  {Undef,
   Str(<<"d","b","1">>),
   Str([i \in 1..DatabaseIdLength |-> IF i % 2 = 1 THEN "A" ELSE "9"]),
   Str([i \in 1..(DatabaseIdLength + 1) |-> IF i = 9 THEN "-" ELSE "f"]),
   Str([i \in 1..DatabaseIdLength |-> "g"])}

\* notion_api_backend.js:325-329 and 674-680: the debugger constructed, the
\* results all false
InitDiagnostic ==
  /\ pc = "diag_env"
  /\ env \in {[apiKey |-> k] : k \in ServerKeys}
  /\ req \in {[fn |-> "runDiagnostic", databaseId |-> d,
               results |-> [s \in {DiagnosticSteps[i] : i \in 1..5} |-> FALSE],
               ran |-> <<>>,
               outcomes |-> [s \in {DiagnosticSteps[i] : i \in 1..5} |-> "none"]] :
                 d \in DatabaseIds}
  /\ outbound = <<>>
  /\ reply = <<>>
  /\ fs = None
  /\ fs0 = None
  /\ cand = 0 /\ apiInfo = None /\ doc = None /\ spec = None /\ opts = None
  /\ out = None /\ out2 = None /\ clock = 0 /\ call = None /\ requests = <<>>

\* notion_api_backend.js:683-687
VerifyEnvironment ==
  /\ pc = "diag_env"
  /\ LET passed == verifyEnvironmentVariable(env.apiKey)
     IN  /\ req' = StepDone(req, "envCheck", IF passed THEN "ok" ELSE "error", passed)
         /\ pc' = IF passed THEN "diag_basic" ELSE "diag_returned"
         /\ reply' = IF passed THEN reply ELSE <<req'.results>>
  /\ UNCHANGED <<genVars, fs, fs0, env, outbound>>

\* notion_api_backend.js:690-697 and 395-419
TestBasicConnection ==
  /\ pc = "diag_basic"
  /\ \E o \in CallOutcomes :
       /\ outbound' = Append(outbound, "GET /users/me")
       /\ req' = StepDone(req, "basicConnection", o, o = "ok")
       /\ pc' = AfterBasicConnection(o = "ok", req.databaseId)
       /\ reply' = IF pc' = "diag_returned" THEN <<req'.results>> ELSE reply
  /\ UNCHANGED <<genVars, fs, fs0, env>>

\* notion_api_backend.js:698-700 and 424-454: no call for an id of the wrong
\* format
TestDatabaseAccess ==
  /\ pc = "diag_access"
  /\ \E o \in CallOutcomes :
       LET called == validateDatabaseId(req.databaseId)
           passed == called /\ o = "ok"
       IN  /\ ~called => o = "error"
           /\ outbound' = IF called THEN Append(outbound, "GET /databases/id") ELSE outbound
           /\ req' = StepDone(req, "databaseAccess", o, passed)
           /\ pc' = IF passed THEN "diag_query" ELSE "diag_returned"
           /\ reply' = IF passed THEN reply ELSE <<req'.results>>
  /\ UNCHANGED <<genVars, fs, fs0, env>>

\* notion_api_backend.js:701 and 459-484
TestDatabaseQuery ==
  /\ pc = "diag_query"
  /\ \E o \in CallOutcomes :
       /\ outbound' = Append(outbound, "POST /databases/id/query")
       /\ req' = StepDone(req, "databaseQuery", o, o = "ok")
  /\ pc' = "diag_page"
  /\ UNCHANGED <<genVars, fs, fs0, env, reply>>

\* notion_api_backend.js:702, 489-532 and 537-552: the page is created and
\* then archived; a failure to archive it is only logged
TestPageCreation ==
  /\ pc = "diag_page"
  /\ \E o \in CallOutcomes :
       /\ outbound' = IF o = "error" THEN Append(outbound, "POST /pages")
                      ELSE outbound \o <<"POST /pages", "PATCH /pages/id">>
       /\ req' = StepDone(req, "pageCreation", o, o = "ok")
       /\ reply' = <<req'.results>>
  /\ pc' = "diag_returned"
  /\ UNCHANGED <<genVars, fs, fs0, env>>

NextDiagnostic ==
  \/ VerifyEnvironment
  \/ TestBasicConnection
  \/ TestDatabaseAccess
  \/ TestDatabaseQuery
  \/ TestPageCreation

SpecDiagnostic == InitDiagnostic /\ [][NextDiagnostic]_vars

\* the step has been run
Ran(step) == \E i \in DOMAIN req.ran : req.ran[i] = step

\* the gates of runDiagnostic and the meaning of its flags
DiagnosticGates ==
  /\ outbound # <<>> => req.results.envCheck
  /\ Ran("databaseAccess") => (req.results.basicConnection /\ Truthy(req.databaseId))
  /\ (Ran("databaseQuery") \/ Ran("pageCreation")) => req.results.databaseAccess
  /\ \A i \in 1..5 :
       req.results[DiagnosticSteps[i]] =>
         (Ran(DiagnosticSteps[i]) /\ req.outcomes[DiagnosticSteps[i]] = "ok")
  /\ req.results.envCheck =>
       (env.apiKey.t = "string" /\ Len(env.apiKey.s) = ExpectedKeyLength)
  /\ pc = "diag_returned" => reply = <<req.results>>

\* C30, as stated: the steps are gated (no call to Notion unless the
\* environment check passed, no database test unless the basic connection
\* succeeded and an id was given, query and page creation only after the
\* database access succeeded), a flag is true only if its step ran and
\* succeeded, and no later flag is true while an earlier one is false.
C30_LaterFlagImpliesEarlier ==
  /\ DiagnosticGates
  /\ \A i \in 1..5 : \A j \in 1..5 :
       (i < j /\ req.results[DiagnosticSteps[j]]) => req.results[DiagnosticSteps[i]]

\* C30, amended: the same gates, and a flag is never true while the flag of
\* a step that gates it is false: basicConnection needs envCheck,
\* databaseAccess needs basicConnection, databaseQuery and pageCreation each
\* need databaseAccess; the last two are independent of each other.
C30_FlagImpliesItsGates ==
  /\ DiagnosticGates
  /\ req.results.basicConnection => req.results.envCheck
  /\ req.results.databaseAccess => req.results.basicConnection
  /\ req.results.databaseQuery => req.results.databaseAccess
  /\ req.results.pageCreation => req.results.databaseAccess

\* C30, the case: the diagnostic returned after all five steps, the page
\* creation having succeeded and the query having failed
C30_PageCreatedAfterFailedQuery ==
  /\ pc = "diag_returned"
  /\ Len(req.ran) = 5
  /\ ~reply[1].databaseQuery
  /\ reply[1].pageCreation

(***************************************************************************)
(* src/unnamed/part_009: setupEnvironment, createEnvFile, generateEnvContent *)
(* and updateGitignore.  The filesystem holds the three files of the        *)
(* workspace root that they touch; the content of .gitignore is the         *)
(* sequence of its characters, the content of an environment file the       *)
(* values of its variables.                                                 *)
(***************************************************************************)
\* part_009:104-118
generateEnvContent(config) ==
  [RAPIDAPI_KEY |-> OrElse(config.rapidApiKey, Lit("")),
   RAPIDAPI_HOST |-> OrElse(config.rapidApiHost, Lit("")),
   RAPIDAPI_OUTPUT_DIR |-> OrElse(config.outputDirectory, Lit("./src/api")),
   RAPIDAPI_AUTO_GENERATE_TYPES |-> IF Truthy(config.autoGenerateTypes) THEN "true" ELSE "false",
   RAPIDAPI_DEBUG |-> IF Truthy(config.debug) THEN "true" ELSE "false",
   NODE_ENV |-> "development"]

\* part_009:78-84: the content written to .env
EnvContent(rapidApiKey, rapidApiHost) ==
  generateEnvContent([rapidApiKey |-> OrElse(rapidApiKey, Lit("")),
                      rapidApiHost |-> OrElse(rapidApiHost, Lit("")),
                      outputDirectory |-> Lit("./src/api"),
                      autoGenerateTypes |-> Bool(TRUE), debug |-> Bool(FALSE)])

\* part_009:90-96: the content written to .env.example
EnvExampleContent ==
  generateEnvContent([rapidApiKey |-> Lit("your_rapidapi_key_here"),
                      rapidApiHost |-> Lit("your_rapidapi_host_here"),
                      outputDirectory |-> Lit("./src/api"),
                      autoGenerateTypes |-> Bool(TRUE), debug |-> Bool(FALSE)])

\* part_009:123-204
requiredEntries ==
  <<
     <<"#"," ","E","n","v","i","r","o","n","m","e","n","t"," ","v","a","r","i","a","b","l","e","s">>,
     <<".","e","n","v">>,
     <<".","e","n","v",".","l","o","c","a","l">>,
     <<".","e","n","v",".","p","r","o","d","u","c","t","i","o","n">>,
     <<".","e","n","v",".","s","t","a","g","i","n","g">>,
     <<>>,
     <<"#"," ","R","a","p","i","d","A","P","I"," ","G","e","n","e","r","a","t","o","r">>,
     <<"n","o","d","e","_","m","o","d","u","l","e","s","/">>,
     <<"o","u","t","/">>,
     <<"d","i","s","t","/">>,
     <<"*",".","v","s","i","x">>,
     <<".","v","s","c","o","d","e","-","t","e","s","t","/">>,
     <<>>,
     <<"#"," ","L","o","g","s">>,
     <<"l","o","g","s","/">>,
     <<"*",".","l","o","g">>,
     <<"n","p","m","-","d","e","b","u","g",".","l","o","g","*">>,
     <<"y","a","r","n","-","d","e","b","u","g",".","l","o","g","*">>,
     <<"y","a","r","n","-","e","r","r","o","r",".","l","o","g","*">>,
     <<>>,
     <<"#"," ","R","u","n","t","i","m","e"," ","d","a","t","a">>,
     <<"p","i","d","s","/">>,
     <<"*",".","p","i","d">>,
     <<"*",".","s","e","e","d">>,
     <<"*",".","p","i","d",".","l","o","c","k">>,
     <<>>,
     <<"#"," ","C","o","v","e","r","a","g","e"," ","d","i","r","e","c","t","o","r","y"," ","u","s","e","d"," ","b","y"," ","t","o","o","l","s"," ","l","i","k","e"," ","i","s","t","a","n","b","u","l">>,
     <<"c","o","v","e","r","a","g","e","/">>,
     <<".","n","y","c","_","o","u","t","p","u","t","/">>,
     <<>>,
     <<"#"," ","D","e","p","e","n","d","e","n","c","y"," ","d","i","r","e","c","t","o","r","i","e","s">>,
     <<"n","o","d","e","_","m","o","d","u","l","e","s","/">>,
     <<"j","s","p","m","_","p","a","c","k","a","g","e","s","/">>,
     <<>>,
     <<"#"," ","O","p","t","i","o","n","a","l"," ","n","p","m"," ","c","a","c","h","e"," ","d","i","r","e","c","t","o","r","y">>,
     <<".","n","p","m">>,
     <<>>,
     <<"#"," ","O","p","t","i","o","n","a","l"," ","R","E","P","L"," ","h","i","s","t","o","r","y">>,
     <<".","n","o","d","e","_","r","e","p","l","_","h","i","s","t","o","r","y">>,
     <<>>,
     <<"#"," ","O","u","t","p","u","t"," ","o","f"," ","'","n","p","m"," ","p","a","c","k","'">>,
     <<"*",".","t","g","z">>,
     <<>>,
     <<"#"," ","Y","a","r","n"," ","I","n","t","e","g","r","i","t","y"," ","f","i","l","e">>,
     <<".","y","a","r","n","-","i","n","t","e","g","r","i","t","y">>,
     <<>>,
     <<"#"," ","d","o","t","e","n","v"," ","e","n","v","i","r","o","n","m","e","n","t"," ","v","a","r","i","a","b","l","e","s"," ","f","i","l","e">>,
     <<".","e","n","v">>,
     <<".","e","n","v",".","t","e","s","t">>,
     <<>>,
     <<"#"," ","p","a","r","c","e","l","-","b","u","n","d","l","e","r"," ","c","a","c","h","e"," ","(","h","t","t","p","s",":","/","/","p","a","r","c","e","l","j","s",".","o","r","g","/",")">>,
     <<".","c","a","c","h","e">>,
     <<".","p","a","r","c","e","l","-","c","a","c","h","e">>,
     <<>>,
     <<"#"," ","n","e","x","t",".","j","s"," ","b","u","i","l","d"," ","o","u","t","p","u","t">>,
     <<".","n","e","x","t">>,
     <<>>,
     <<"#"," ","n","u","x","t",".","j","s"," ","b","u","i","l","d"," ","o","u","t","p","u","t">>,
     <<".","n","u","x","t">>,
     <<>>,
     <<"#"," ","v","u","e","p","r","e","s","s"," ","b","u","i","l","d"," ","o","u","t","p","u","t">>,
     <<".","v","u","e","p","r","e","s","s","/","d","i","s","t">>,
     <<>>,
     <<"#"," ","S","e","r","v","e","r","l","e","s","s"," ","d","i","r","e","c","t","o","r","i","e","s">>,
     <<".","s","e","r","v","e","r","l","e","s","s">>,
     <<>>,
     <<"#"," ","F","u","s","e","B","o","x"," ","c","a","c","h","e">>,
     <<".","f","u","s","e","b","o","x","/">>,
     <<>>,
     <<"#"," ","D","y","n","a","m","o","D","B"," ","L","o","c","a","l"," ","f","i","l","e","s">>,
     <<".","d","y","n","a","m","o","d","b","/">>,
     <<>>,
     <<"#"," ","O","S"," ","g","e","n","e","r","a","t","e","d"," ","f","i","l","e","s">>,
     <<".","D","S","_","S","t","o","r","e">>,
     <<".","D","S","_","S","t","o","r","e","?">>,
     <<".","_","*">>,
     <<".","S","p","o","t","l","i","g","h","t","-","V","1","0","0">>,
     <<".","T","r","a","s","h","e","s">>,
     <<"e","h","t","h","u","m","b","s",".","d","b">>,
     <<"T","h","u","m","b","s",".","d","b">>
  >>

\* s.includes(pat)
Includes(s, pat) == pat = <<>> \/ \E i \in 1..Len(s) : IsPrefixAt(s, pat, i)

\* part_009:213-218
MissingEntries(gitignoreContent) ==
  SelectSeq(requiredEntries,
            LAMBDA entry : IF entry = <<>> \/ entry[1] = "#" THEN FALSE
                           ELSE ~Includes(gitignoreContent, entry))

\* part_009:206-231: the file .gitignore after updateGitignore
updateGitignore(file) ==
  LET gitignoreContent == IF file.t = "file" THEN file.content ELSE <<>>
      missingEntries == MissingEntries(gitignoreContent)
      terminated ==
        IF gitignoreContent # <<>> /\ gitignoreContent[Len(gitignoreContent)] # "\n"
        THEN gitignoreContent \o <<"\n">> ELSE gitignoreContent
  IN  IF Len(missingEntries) > 0
      THEN FileNode(terminated \o <<"\n","#"," ","A","d","d","e","d"," ","b","y"," ","R","a","p","i","d","A","P","I"," ","G","e","n","e","r","a","t","o","r","\n">>
                      \o Join(missingEntries, <<"\n">>) \o <<"\n">>)
      ELSE file

\* what showQuickPick resolves to: one of the items, or undefined when the
\* prompt is dismissed
QuickPickAnswers == {Lit("Yes"), Lit("No"), Lit("View Current"), Undef}
\* what showInputBox resolves to: the text, or undefined when dismissed
KeyInputs == {Undef, Lit(""), Lit("key-A")}
HostInputs == {Undef, Lit("a.p.rapidapi.com")}
OldEnvFile == FileNode([RAPIDAPI_KEY |-> Lit("key-B")])
GitignoreFiles ==
  {NoNode, FileNode(<<>>),
   FileNode(<<".","e","n","v","\n">>),
   FileNode(<<".","e","n","v",".","e","x","a","m","p","l","e","\n">>),
   FileNode(<<"n","o","d","e","_","m","o","d","u","l","e","s","/","\n",".","e","n","v",".","l","o","c","a","l">>),
   FileNode(<<"#"," ","s","e","c","r","e","t","s","\n",".","e","n","v","\n","d","i","s","t","/","\n">>)}

\* part_009:13-17: setupEnvironment is called in a workspace
InitEnv ==
  /\ pc = "env_start"
  /\ fs \in {[env |-> e, example |-> x, gitignore |-> g] :
               e \in {NoNode, OldEnvFile}, x \in {NoNode, OldEnvFile}, g \in GitignoreFiles}
  /\ fs0 = fs
  /\ env = None
  /\ req = [fn |-> "createEnvFile", pick |-> None, rapidApiKey |-> None, rapidApiHost |-> None]
  /\ outbound = <<>>
  /\ reply = <<>>
  /\ cand = 0 /\ apiInfo = None /\ doc = None /\ spec = None /\ opts = None
  /\ out = None /\ out2 = None /\ clock = 0 /\ call = None /\ requests = <<>>

\* part_009:43-52: with a .env the quick pick is shown
CheckEnvExists ==
  /\ pc = "env_start"
  /\ IF fs.env.t # "absent"
     THEN pc' = "env_picking" /\ outbound' = Append(outbound, "showQuickPick")
     ELSE pc' = "env_key" /\ UNCHANGED outbound
  /\ UNCHANGED <<genVars, fs, fs0, env, req, reply>>

\* part_009:54-60: No and View Current return, anything else goes on
PickOverwrite ==
  /\ pc = "env_picking"
  /\ \E overwrite \in QuickPickAnswers :
       /\ req' = [req EXCEPT !.pick = overwrite]
       /\ IF overwrite = Lit("No")
          THEN pc' = "env_done" /\ UNCHANGED outbound
          ELSE IF overwrite = Lit("View Current")
          THEN pc' = "env_done" /\ outbound' = Append(outbound, "showTextDocument")
          ELSE pc' = "env_key" /\ UNCHANGED outbound
  /\ UNCHANGED <<genVars, fs, fs0, env, reply>>

\* part_009:64-69
EnterKey ==
  /\ pc = "env_key"
  /\ \E k \in KeyInputs : req' = [req EXCEPT !.rapidApiKey = k]
  /\ outbound' = Append(outbound, "showInputBox")
  /\ pc' = "env_host"
  /\ UNCHANGED <<genVars, fs, fs0, env, reply>>

\* part_009:72-76
EnterHost ==
  /\ pc = "env_host"
  /\ \E h \in HostInputs : req' = [req EXCEPT !.rapidApiHost = h]
  /\ outbound' = Append(outbound, "showInputBox")
  /\ pc' = "env_write"
  /\ UNCHANGED <<genVars, fs, fs0, env, reply>>

\* part_009:78-87
WriteEnv ==
  /\ pc = "env_write"
  /\ fs' = [fs EXCEPT !.env = FileNode(EnvContent(req.rapidApiKey, req.rapidApiHost))]
  /\ pc' = "env_example"
  /\ UNCHANGED <<genVars, fs0, env, req, outbound, reply>>

\* part_009:90-98
WriteEnvExample ==
  /\ pc = "env_example"
  /\ fs' = [fs EXCEPT !.example = FileNode(EnvExampleContent)]
  /\ pc' = "env_done"
  /\ UNCHANGED <<genVars, fs0, env, req, outbound, reply>>

\* part_009:24 and 120-232
UpdateGitignore ==
  /\ pc = "env_done"
  /\ fs' = [fs EXCEPT !.gitignore = updateGitignore(fs.gitignore)]
  /\ req' = [req EXCEPT !.fn = "updateGitignore"]
  /\ pc' = "env_ignored"
  /\ UNCHANGED <<genVars, fs0, env, outbound, reply>>

NextEnv ==
  \/ CheckEnvExists
  \/ PickOverwrite
  \/ EnterKey
  \/ EnterHost
  \/ WriteEnv
  \/ WriteEnvExample
  \/ UpdateGitignore

SpecEnv == InitEnv /\ [][NextEnv]_vars

\* C27: when .env exists already, .env and .env.example are written only
\* after the user picked Yes; after No, View Current or a dismissed prompt
\* both files are as they were.
C27_WritesOnlyAfterYes ==
  fs0.env.t # "absent" =>
    /\ (fs.env # fs0.env \/ fs.example # fs0.example) => req.pick = Lit("Yes")
    /\ (pc \in {"env_done", "env_ignored"} /\ req.pick # Lit("Yes")) =>
         (fs.env = fs0.env /\ fs.example = fs0.example)

\* the entry is a line of the content: it begins at the start or after a
\* line break and ends at the end or before one
IsLineOf(content, entry) ==
  \E i \in 1..Len(content) :
    /\ IsPrefixAt(content, entry, i)
    /\ (i = 1 \/ content[i - 1] = "\n")
    /\ (i + Len(entry) - 1 = Len(content) \/ content[i + Len(entry)] = "\n")

\* C28: after updateGitignore, whatever .gitignore held before, every
\* required entry that is no comment is a line of its own in .gitignore
\* (.env in particular; .env.example or .env.local do not count as .env),
\* and the previous content is a prefix of the new one.
C28_RequiredEntriesAreLines ==
  pc = "env_ignored" =>
    /\ fs.gitignore.t = "file"
    /\ \A k \in DOMAIN requiredEntries :
         (requiredEntries[k] # <<>> /\ requiredEntries[k][1] # "#") =>
           IsLineOf(fs.gitignore.content, requiredEntries[k])
    /\ fs0.gitignore.t = "file" =>
         IsPrefixAt(fs.gitignore.content, fs0.gitignore.content, 1)

====
